---------------------------- MODULE Spec2Model ----------------------------
(***************************************************************************)
(* Model of aiida-openmx: the input composer                               *)
(* (OpenmxCalculation.prepare_for_submission and the helpers it calls),    *)
(* the stdout parser (OpenmxParser.parse) and the DosMain control file     *)
(* (DosmainCalculation.prepare_for_submission).                            *)
(*                                                                         *)
(* Python strings are sequences of one-character strings, so that          *)
(* str.upper, str.lower, str.replace and len act on the characters.        *)
(* A Python dict is a sequence of [k, v] records with distinct keys, in    *)
(* insertion order, which is the order dict.items() iterates in.           *)
(* A Python value is a record [type, val] carrying its runtime type.       *)
(***************************************************************************)
EXTENDS Integers, Sequences, FiniteSets, TLC

\* Largest number of entries in the caller's parameters dictionary.
MaxParams == 2

\* Valence electron counts range over 1..MaxValence.
MaxValence == 2

\* Largest finite value probed against a parameter's limits.
ProbeMax == 4

-----------------------------------------------------------------------------
(* Characters and strings *)

Letters ==
    << <<"a", "A">>, <<"b", "B">>, <<"c", "C">>, <<"d", "D">>, <<"e", "E">>,
       <<"f", "F">>, <<"g", "G">>, <<"h", "H">>, <<"i", "I">>, <<"j", "J">>,
       <<"k", "K">>, <<"l", "L">>, <<"m", "M">>, <<"n", "N">>, <<"o", "O">>,
       <<"p", "P">>, <<"q", "Q">>, <<"r", "R">>, <<"s", "S">>, <<"t", "T">>,
       <<"u", "U">>, <<"v", "V">>, <<"w", "W">>, <<"x", "X">>, <<"y", "Y">>,
       <<"z", "Z">> >>

\* str.upper on one character
UpperChar(c) ==
    IF \E i \in 1..Len(Letters) : Letters[i][1] = c
    THEN Letters[CHOOSE i \in 1..Len(Letters) : Letters[i][1] = c][2]
    ELSE c

\* str.lower on one character
LowerChar(c) ==
    IF \E i \in 1..Len(Letters) : Letters[i][2] = c
    THEN Letters[CHOOSE i \in 1..Len(Letters) : Letters[i][2] = c][1]
    ELSE c

\* str.upper
str_upper(s) == [i \in 1..Len(s) |-> UpperChar(s[i])]

\* str.lower
str_lower(s) == [i \in 1..Len(s) |-> LowerChar(s[i])]

\* kw.replace('_', '.')
replace_underscore(s) == [i \in 1..Len(s) |-> IF s[i] = "_" THEN "." ELSE s[i]]

\* sep.join(parts) for a sequence of strings
RECURSIVE join(_, _)
join(sep, parts) ==
    IF Len(parts) = 0 THEN <<>>
    ELSE IF Len(parts) = 1 THEN parts[1]
    ELSE parts[1] \o sep \o join(sep, Tail(parts))

\* os.path.splitext(name)[0]: the text before the last dot
splitext_stem(name) ==
    LET dots == {i \in 1..Len(name) : name[i] = "."}
    IN  IF dots = {} THEN name
        ELSE LET last == CHOOSE i \in dots : \A j \in dots : j <= i
             IN  IF last = 1 THEN name ELSE SubSeq(name, 1, last - 1)

Digit(d) == <<"0", "1", "2", "3", "4", "5", "6", "7", "8", "9">>[d + 1]

\* '{:d}'.format(n)
RECURSIVE format_d(_)
format_d(n) ==
    IF n < 0 THEN <<"-">> \o format_d(0 - n)
    ELSE IF n < 10 THEN <<Digit(n)>>
    ELSE format_d(n \div 10) \o <<Digit(n % 10)>>

-----------------------------------------------------------------------------
(* Keywords and literals *)
KW_SYSTEM_CURRRENTDIRECTORY == <<"S", "Y", "S", "T", "E", "M", "_", "C", "U", "R", "R", "R", "E", "N", "T", "D", "I", "R", "E", "C", "T", "O", "R", "Y">>
KW_SYSTEM_NAME == <<"S", "Y", "S", "T", "E", "M", "_", "N", "A", "M", "E">>
KW_DATA_PATH == <<"D", "A", "T", "A", "_", "P", "A", "T", "H">>
KW_LEVEL_OF_STDOUT == <<"L", "E", "V", "E", "L", "_", "O", "F", "_", "S", "T", "D", "O", "U", "T">>
KW_LEVEL_OF_FILEOUT == <<"L", "E", "V", "E", "L", "_", "O", "F", "_", "F", "I", "L", "E", "O", "U", "T">>
KW_SPECIES_NUMBER == <<"S", "P", "E", "C", "I", "E", "S", "_", "N", "U", "M", "B", "E", "R">>
KW_DEFINITION_OF_ATOMIC_SPECIES == <<"D", "E", "F", "I", "N", "I", "T", "I", "O", "N", "_", "O", "F", "_", "A", "T", "O", "M", "I", "C", "_", "S", "P", "E", "C", "I", "E", "S">>
KW_SCF_XCTYPE == <<"S", "C", "F", "_", "X", "C", "T", "Y", "P", "E">>
KW_SCF_KGRID == <<"S", "C", "F", "_", "K", "G", "R", "I", "D">>
KW_ATOMS_NUMBER == <<"A", "T", "O", "M", "S", "_", "N", "U", "M", "B", "E", "R">>
KW_ATOMS_SPECIESANDCOORDINATES_UNIT == <<"A", "T", "O", "M", "S", "_", "S", "P", "E", "C", "I", "E", "S", "A", "N", "D", "C", "O", "O", "R", "D", "I", "N", "A", "T", "E", "S", "_", "U", "N", "I", "T">>
KW_ATOMS_SPECIESANDCOORDINATES == <<"A", "T", "O", "M", "S", "_", "S", "P", "E", "C", "I", "E", "S", "A", "N", "D", "C", "O", "O", "R", "D", "I", "N", "A", "T", "E", "S">>
KW_ATOMS_UNITVECTORS_UNIT == <<"A", "T", "O", "M", "S", "_", "U", "N", "I", "T", "V", "E", "C", "T", "O", "R", "S", "_", "U", "N", "I", "T">>
KW_ATOMS_UNITVECTORS == <<"A", "T", "O", "M", "S", "_", "U", "N", "I", "T", "V", "E", "C", "T", "O", "R", "S">>
KW_ATOMS_NETCHARGE == <<"A", "T", "O", "M", "S", "_", "N", "E", "T", "C", "H", "A", "R", "G", "E">>
KW_SCF_RESTART == <<"S", "C", "F", "_", "R", "E", "S", "T", "A", "R", "T">>
KW_SCF_RESTART_FILENAME == <<"S", "C", "F", "_", "R", "E", "S", "T", "A", "R", "T", "_", "F", "I", "L", "E", "N", "A", "M", "E">>
KW_MD_TYPE == <<"M", "D", "_", "T", "Y", "P", "E">>
KW_MD_MAXITER == <<"M", "D", "_", "M", "A", "X", "I", "T", "E", "R">>
KW_SCF_MAXITER == <<"S", "C", "F", "_", "M", "A", "X", "I", "T", "E", "R">>
KW_BAND_KPATH == <<"B", "A", "N", "D", "_", "K", "P", "A", "T", "H">>
KW_BAND_KPATH_UNITCELL == <<"B", "A", "N", "D", "_", "K", "P", "A", "T", "H", "_", "U", "N", "I", "T", "C", "E", "L", "L">>
KW_BAND_NKPATH == <<"B", "A", "N", "D", "_", "N", "K", "P", "A", "T", "H">>
KW_SCF_EIGENVALUESOLVER == <<"S", "C", "F", "_", "E", "I", "G", "E", "N", "V", "A", "L", "U", "E", "S", "O", "L", "V", "E", "R">>
KW_MD_TIMESTEP == <<"M", "D", "_", "T", "I", "M", "E", "S", "T", "E", "P">>
KW_BAND_DISPERSION == <<"B", "A", "N", "D", "_", "D", "I", "S", "P", "E", "R", "S", "I", "O", "N">>

\* Keys a caller may write, in the letter case and separator the caller chose
key_scf_dot_kgrid == <<"s", "c", "f", ".", "k", "g", "r", "i", "d">>
key_SCF_dot_Kgrid == <<"S", "C", "F", ".", "K", "g", "r", "i", "d">>
key_scf_kgrid == <<"s", "c", "f", "_", "k", "g", "r", "i", "d">>
key_md_type == <<"m", "d", "_", "t", "y", "p", "e">>
key_SCF_MAXITERS == <<"S", "C", "F", "_", "M", "A", "X", "I", "T", "E", "R", "S">>
key_MD_TYPES == <<"M", "D", "_", "T", "Y", "P", "E", "S">>
key_level_of_stdout == <<"l", "e", "v", "e", "l", "_", "o", "f", "_", "s", "t", "d", "o", "u", "t">>
key_MD_TYPE == <<"M", "D", "_", "T", "Y", "P", "E">>
key_band_nkpath == <<"b", "a", "n", "d", "_", "n", "k", "p", "a", "t", "h">>
key_ADDITIONAL_RETRIEVE_LIST == <<"A", "D", "D", "I", "T", "I", "O", "N", "A", "L", "_", "R", "E", "T", "R", "I", "E", "V", "E", "_", "L", "I", "S", "T">>
key_additional_retrieve_list == <<"a", "d", "d", "i", "t", "i", "o", "n", "a", "l", "_", "r", "e", "t", "r", "i", "e", "v", "e", "_", "l", "i", "s", "t">>
key_CMDLINE == <<"C", "M", "D", "L", "I", "N", "E">>
key_DOS_FILEOUT == <<"D", "O", "S", "_", "F", "I", "L", "E", "O", "U", "T">>
key_dos_fileout == <<"d", "o", "s", "_", "f", "i", "l", "e", "o", "u", "t">>
key_SCF_MAXITER == <<"S", "C", "F", "_", "M", "A", "X", "I", "T", "E", "R">>
key_MD_TIMESTEP == <<"M", "D", "_", "T", "I", "M", "E", "S", "T", "E", "P">>
key_BAND_DISPERSION == <<"B", "A", "N", "D", "_", "D", "I", "S", "P", "E", "R", "S", "I", "O", "N">>
key_BAND_KPATH == <<"B", "A", "N", "D", "_", "K", "P", "A", "T", "H">>
key_BAND_KPATH_UNITCELL == <<"B", "A", "N", "D", "_", "K", "P", "A", "T", "H", "_", "U", "N", "I", "T", "C", "E", "L", "L">>

\* Other string literals
str_aiida == <<"a", "i", "i", "d", "a">>
str_data_path == <<".", "/">>
str_Opt == <<"O", "p", "t">>
str_NOMD == <<"N", "O", "M", "D">>
str_nomd == <<"n", "o", "m", "d">>
str_opt == <<"o", "p", "t">>
str_OptC1 == <<"O", "p", "t", "C", "1">>
str_optc1 == <<"o", "p", "t", "c", "1">>
str_optc2 == <<"o", "p", "t", "c", "2">>
str_optc3 == <<"o", "p", "t", "c", "3">>
str_optc4 == <<"o", "p", "t", "c", "4">>
str_optc5 == <<"o", "p", "t", "c", "5">>
str_optc6 == <<"o", "p", "t", "c", "6">>
str_optc7 == <<"o", "p", "t", "c", "7">>
str_rfc5 == <<"r", "f", "c", "5">>
str_rfc6 == <<"r", "f", "c", "6">>
str_rfc7 == <<"r", "f", "c", "7">>
str_band == <<"b", "a", "n", "d">>
str_Band == <<"B", "a", "n", "d">>
str_Cluster == <<"C", "l", "u", "s", "t", "e", "r">>
str_dos == <<"d", "o", "s">>
str_pdos == <<"p", "d", "o", "s">>
str_DOS == <<"D", "O", "S">>
str_tetrahedron == <<"t", "e", "t", "r", "a", "h", "e", "d", "r", "o", "n">>
str_gaussian == <<"g", "a", "u", "s", "s", "i", "a", "n">>
str_Gaussian == <<"G", "a", "u", "s", "s", "i", "a", "n">>
str_PBE == <<"P", "B", "E">>
str_LDA == <<"L", "D", "A">>
ext_vps == <<".", "v", "p", "s">>
ext_pao == <<".", "p", "a", "o">>
TAG_DEFINITION_OF_ATOMIC_SPECIES == <<"D", "E", "F", "I", "N", "I", "T", "I", "O", "N", ".", "O", "F", ".", "A", "T", "O", "M", "I", "C", ".", "S", "P", "E", "C", "I", "E", "S">>
TAG_ATOMS_SPECIESANDCOORDINATES == <<"A", "T", "O", "M", "S", ".", "S", "P", "E", "C", "I", "E", "S", "A", "N", "D", "C", "O", "O", "R", "D", "I", "N", "A", "T", "E", "S">>
TAG_ATOMS_UNITVECTORS == <<"A", "T", "O", "M", "S", ".", "U", "N", "I", "T", "V", "E", "C", "T", "O", "R", "S">>
TAG_BAND_KPATH_UNITCELL == <<"B", "A", "N", "D", ".", "K", "P", "A", "T", "H", ".", "U", "N", "I", "T", "C", "E", "L", "L">>
kind_A == <<"A">>
kind_B == <<"B">>
name_level_of_stdout == <<"l", "e", "v", "e", "l", ".", "o", "f", ".", "s", "t", "d", "o", "u", "t">>
name_level_of_fileout == <<"l", "e", "v", "e", "l", ".", "o", "f", ".", "f", "i", "l", "e", "o", "u", "t">>
name_MD_maxIter == <<"M", "D", ".", "m", "a", "x", "I", "t", "e", "r">>
name_MD_TimeStep == <<"M", "D", ".", "T", "i", "m", "e", "S", "t", "e", "p">>
name_MD_Opt_DIIS_History == <<"M", "D", ".", "O", "p", "t", ".", "D", "I", "I", "S", ".", "H", "i", "s", "t", "o", "r", "y">>
name_scf_Kgrid == <<"s", "c", "f", ".", "K", "g", "r", "i", "d">>
name_scf_criterion == <<"s", "c", "f", ".", "c", "r", "i", "t", "e", "r", "i", "o", "n">>
name_scf_maxIter == <<"s", "c", "f", ".", "m", "a", "x", "I", "t", "e", "r">>

\* The kind names a structure, a pseudo family or a basis set may use
KindNames == <<kind_A, kind_B>>

-----------------------------------------------------------------------------
(* Python values *)

VStr(s) == [type |-> "string", val |-> s]
VInt(n) == [type |-> "integer", val |-> n]
VBool(b) == [type |-> "boolean", val |-> b]
\* a float, held as a whole number of thousandths
VNum(milli) == [type |-> "number", val |-> milli]
\* a list, tuple or numpy array
VArr(items) == [type |-> "array", val |-> items]
\* a list of rows, or a two-dimensional numpy array
VMat(rows) == [type |-> "array", val |-> rows, ndim |-> 2]
\* a dict value
VObj(items) == [type |-> "object", val |-> items]

\* '{:0.12f}'.format(x) for x a whole number of thousandths, x >= 0
format_012f(milli) ==
    format_d(milli \div 1000) \o <<".">>
        \o <<Digit((milli % 1000) \div 100), Digit((milli % 100) \div 10), Digit(milli % 10)>>
        \o <<"0", "0", "0", "0", "0", "0", "0", "0", "0">>

\* '{:0.6f}'.format(x) for x a whole number of thousandths, x >= 0
format_06f(milli) ==
    format_d(milli \div 1000) \o <<".">>
        \o <<Digit((milli % 1000) \div 100), Digit((milli % 100) \div 10), Digit(milli % 10)>>
        \o <<"0", "0", "0">>

\* the value of a Python number in thousandths
Milli(v) == IF v.type = "integer" THEN v.val * 1000 ELSE v.val

-----------------------------------------------------------------------------
(* Python dictionaries *)

dict_keys(d) == [i \in 1..Len(d) |-> d[i].k]

dict_has(d, key) == \E i \in 1..Len(d) : d[i].k = key

dict_get(d, key) == d[CHOOSE i \in 1..Len(d) : d[i].k = key].v

\* d[key] = value: an existing key keeps its position
dict_set(d, key, value) ==
    IF dict_has(d, key)
    THEN [i \in 1..Len(d) |-> IF d[i].k = key THEN [k |-> key, v |-> value] ELSE d[i]]
    ELSE Append(d, [k |-> key, v |-> value])

\* dict(pairs)
RECURSIVE dict_from(_)
dict_from(pairs) ==
    IF Len(pairs) = 0 THEN <<>>
    ELSE LET n == Len(pairs)
         IN  dict_set(dict_from(SubSeq(pairs, 1, n - 1)), pairs[n].k, pairs[n].v)

\* two dictionaries compare equal (==) when they hold the same pairs, in any order
dict_eq(d1, d2) == {d1[i] : i \in 1..Len(d1)} = {d2[i] : i \in 1..Len(d2)}

Range(s) == {s[i] : i \in 1..Len(s)}

\* the elements of seq that satisfy Test, in order (a list comprehension)
RECURSIVE Filter(_, _)
Filter(seq, keep) ==
    IF Len(seq) = 0 THEN <<>>
    ELSE (IF seq[1] \in keep THEN <<seq[1]>> ELSE <<>>) \o Filter(Tail(seq), keep)

-----------------------------------------------------------------------------
(* Exceptions *)

\* type: the exception class; id: which raise statement; a, b: what the message names
Raise(type, id, a, b) == [type |-> type, id |-> id, a |-> a, b |-> b]

NoExc == Raise("none", "none", <<>>, <<>>)

Ok(value) == [exc |-> NoExc, value |-> value]

Fail(exc) == [exc |-> exc, value |-> <<>>]

-----------------------------------------------------------------------------
(* utils/dict.py *)

\* transform(s) for the transform str.upper or str.lower
apply(transform, s) == IF transform = "str.upper" THEN str_upper(s) ELSE str_lower(s)

\* case_transform_dict_keys(dictionary, dict_name, func_name, transform)
case_transform_dict_keys(dictionary, transform) ==
    LET new_dict == dict_from([i \in 1..Len(dictionary) |->
                                  [k |-> apply(transform, dictionary[i].k), v |-> dictionary[i].v]])
    IN  IF Len(new_dict) # Len(dictionary)
        THEN \* `for k, v in num_items` iterates the keys of the Counter and unpacks
             \* the first key, a string, into k and v; the comparison v > 1 is
             \* evaluated only when that string has exactly two characters
             LET first_key == apply(transform, dictionary[1].k)
             IN  IF Len(first_key) = 2
                 THEN Fail(Raise("TypeError", "compare_str_int", <<first_key>>, <<>>))
                 ELSE Fail(Raise("ValueError", "unpack", <<first_key>>, <<>>))
        ELSE Ok(new_dict)

\* uppercase_dict_keys(dictionary, dict_name)
uppercase_dict_keys(dictionary) == case_transform_dict_keys(dictionary, "str.upper")

\* a key transformation that renames the keys of `dictionary` itself
dictionary_keys_transformed_in_place(dictionary, transform) ==
    [i \in 1..Len(dictionary) |-> [k |-> apply(transform, dictionary[i].k), v |-> dictionary[i].v]]

\* what a call of case_transform_dict_keys leaves in the object it was handed
\* as `dictionary`: the function fills new_dict and only reads `dictionary`
\* (.items(), len, .keys())
dictionary_after_case_transform_dict_keys(dictionary, transform) ==
    dictionary

\* case_transform_dict_values(dictionary, func_name, transform)
case_transform_dict_values(dictionary, transform) ==
    [i \in 1..Len(dictionary) |->
        IF dictionary[i].v.type = "string"
        THEN [k |-> dictionary[i].k, v |-> VStr(apply(transform, dictionary[i].v.val))]
        ELSE dictionary[i]]

\* lowercase_dict_values(dictionary)
lowercase_dict_values(dictionary) == case_transform_dict_values(dictionary, "str.lower")

-----------------------------------------------------------------------------
(* utils/_input.py *)

_RESERVED_KEYWORDS ==
    << KW_SYSTEM_CURRRENTDIRECTORY, KW_SYSTEM_NAME, KW_DATA_PATH, KW_LEVEL_OF_STDOUT,
       KW_LEVEL_OF_FILEOUT, KW_SPECIES_NUMBER, KW_DEFINITION_OF_ATOMIC_SPECIES,
       KW_SCF_XCTYPE, KW_SCF_KGRID, KW_ATOMS_NUMBER, KW_ATOMS_SPECIESANDCOORDINATES_UNIT,
       KW_ATOMS_SPECIESANDCOORDINATES, KW_ATOMS_UNITVECTORS_UNIT, KW_ATOMS_UNITVECTORS,
       KW_ATOMS_NETCHARGE, KW_SCF_RESTART, KW_SCF_RESTART_FILENAME >>

\* The keyword table the composer loads (openmx-input-schema.json): for every
\* keyword its JSON type and, for arrays, the type of the items; keywords
\* outside the table are not allowed.
Property(kw, type, items) == [k |-> kw, v |-> [type |-> type, items |-> items]]

schema ==
    [ properties |->
        << Property(KW_SYSTEM_NAME, "string", "none"),
           Property(KW_DATA_PATH, "string", "none"),
           Property(KW_LEVEL_OF_STDOUT, "integer", "none"),
           Property(KW_LEVEL_OF_FILEOUT, "integer", "none"),
           Property(KW_SPECIES_NUMBER, "integer", "none"),
           Property(KW_DEFINITION_OF_ATOMIC_SPECIES, "object", "none"),
           Property(KW_MD_TYPE, "string", "none"),
           Property(KW_MD_MAXITER, "integer", "none"),
           Property(KW_MD_TIMESTEP, "number", "none"),
           Property(KW_SCF_EIGENVALUESOLVER, "string", "none"),
           Property(KW_SCF_XCTYPE, "string", "none"),
           Property(KW_SCF_KGRID, "array", "integer"),
           Property(KW_ATOMS_NUMBER, "integer", "none"),
           Property(KW_ATOMS_SPECIESANDCOORDINATES, "array", "object"),
           Property(KW_ATOMS_UNITVECTORS, "array", "array"),
           Property(KW_SCF_MAXITER, "integer", "none"),
           Property(KW_BAND_DISPERSION, "boolean", "none"),
           Property(KW_BAND_NKPATH, "integer", "none"),
           Property(KW_BAND_KPATH_UNITCELL, "array", "array"),
           Property(KW_BAND_KPATH, "array", "object") >>,
      additionalProperties |-> FALSE ]

\* the type checkers of _get_validator: which Python values a JSON type admits
is_type(value, type) ==
    IF type = "number" THEN value.type \in {"integer", "number"} ELSE value.type = type

\* validate_parameters(schema, parameters): validator.validate raises the
\* first error the validator finds, unknown keywords before typed values; the
\* error for unknown keywords names all of them.
validate_parameters(sch, parameters) ==
    LET keys == dict_keys(parameters)
        known == Range(dict_keys(sch.properties))
        extras == Filter(keys, Range(keys) \ known)
        mistyped == Filter(keys, {kw \in Range(keys) \cap known :
                        ~is_type(dict_get(parameters, kw), dict_get(sch.properties, kw).type)})
    IN  IF ~sch.additionalProperties /\ Len(extras) > 0
        THEN Raise("ValidationError", "additionalProperties", extras, <<>>)
        ELSE IF Len(mistyped) > 0
        THEN Raise("ValidationError", "type", <<mistyped[1]>>, <<>>)
        ELSE NoExc

\* the keys of a mapping keyed by kind name, in the order of KindNames
kind_keys(mapping) == Filter(KindNames, DOMAIN mapping)

\* _get_xc_type(pseudos)
_get_xc_type(pseudos) ==
    LET xc_set == {pseudos[kind].xc_type : kind \in DOMAIN pseudos}
    IN  IF Cardinality(xc_set) # 1
        THEN Fail(Raise("ValueError", "xc_type", <<>>, <<>>))
        ELSE Ok(CHOOSE xc \in xc_set : TRUE)

\* _get_def_atomic_species(structure, pseudos, orbitals, orbital_configurations)
_get_def_atomic_species(structure, pseudos, orbitals, orbital_configurations) ==
    LET kinds == structure.kinds
        missing == {i \in 1..Len(kinds) :
                        \/ kinds[i] \notin DOMAIN orbitals
                        \/ kinds[i] \notin DOMAIN orbital_configurations
                        \/ kinds[i] \notin DOMAIN pseudos}
    IN  IF missing # {}
        THEN \* the first subscript with a key that is not there raises KeyError
             LET first == CHOOSE i \in missing : \A j \in missing : i <= j
             IN  Fail(Raise("KeyError", "subscript", <<kinds[first]>>, <<>>))
        ELSE Ok([i \in 1..Len(kinds) |->
                    [k |-> kinds[i],
                     v |-> [pao |-> [file_stem |-> splitext_stem(orbitals[kinds[i]].filename),
                                     orbital_configuration |-> orbital_configurations[kinds[i]]],
                            pseudo |-> splitext_stem(pseudos[kinds[i]].filename)]]])

\* _get_atoms_spec_and_coords(structure, orbitals); valence / 2 in thousandths
_get_atoms_spec_and_coords(structure, orbitals) ==
    [i \in 1..Len(structure.sites) |->
        LET site == structure.sites[i]
            valence == orbitals[site.kind_name].z_valence
        IN  [specie |-> site.kind_name, coords |-> site.position,
             up_charge |-> valence * 500, down_charge |-> valence * 500]]

\* _tag_block(block, tag): '<tag\n' + block + '\ntag>\n', as lines; block is
\* the payload's lines joined by '\n', so an empty payload is one empty line
_tag_block(lines, tag) ==
    << <<"<">> \o tag >> \o (IF Len(lines) = 0 THEN << <<>> >> ELSE lines) \o << tag \o <<">">> >>

ORB_MAP == <<"s", "p", "d", "f">>

\* _write_def_atomic_species(def_atomic_species)
_write_def_atomic_species(def_atomic_species) ==
    LET orbital_config(conf) ==
            join(<<>>, [j \in 1..Len(conf) |->
                           IF conf[j] # 0 THEN <<ORB_MAP[j]>> \o format_d(conf[j]) ELSE <<>>])
        line(entry) ==
            entry.k \o <<" ">> \o entry.v.pao.file_stem \o <<"-">>
                \o orbital_config(entry.v.pao.orbital_configuration) \o <<" ">> \o entry.v.pseudo
    IN  _tag_block([i \in 1..Len(def_atomic_species) |-> line(def_atomic_species[i])],
                   TAG_DEFINITION_OF_ATOMIC_SPECIES)

\* _write_atoms_spec_and_coords(atoms_spec_and_coords)
_write_atoms_spec_and_coords(atoms_spec_and_coords) ==
    LET line(i) ==
            LET data == atoms_spec_and_coords[i]
            IN  join(<<" ">>, << format_d(i), data.specie,
                                 format_012f(data.coords[1]), format_012f(data.coords[2]),
                                 format_012f(data.coords[3]),
                                 format_06f(data.up_charge), format_06f(data.down_charge) >>)
    IN  _tag_block([i \in 1..Len(atoms_spec_and_coords) |-> line(i)],
                   TAG_ATOMS_SPECIESANDCOORDINATES)

\* _write_array_block(array, item_type, tag), for item_type = 'number'
_write_array_block(array, tag) ==
    _tag_block([i \in 1..Len(array) |->
                   join(<<" ">>, [j \in 1..Len(array[i]) |-> format_012f(array[i][j])])],
               tag)

\* the keys of _BLOCK_PARAMETER_WRITERS
_BLOCK_PARAMETER_WRITERS ==
    {KW_ATOMS_SPECIESANDCOORDINATES, KW_ATOMS_UNITVECTORS, KW_DEFINITION_OF_ATOMIC_SPECIES,
     KW_BAND_KPATH, KW_BAND_KPATH_UNITCELL}

\* _FORMAT_TYPE_MAPPING[value_type].format(value)
format_value(value_type, value) ==
    CASE value_type = "number" -> format_012f(Milli(value))
      [] value_type = "integer" -> format_d(value.val)
      [] OTHER -> value.val

\* the text one keyword contributes to the input file, as lines
param_content(kw, value, sch) ==
    LET value_type == dict_get(sch.properties, kw).type
        kw_str == replace_underscore(kw)
    IN  IF kw \in _BLOCK_PARAMETER_WRITERS
        THEN CASE kw = KW_ATOMS_SPECIESANDCOORDINATES -> _write_atoms_spec_and_coords(value.val)
               [] kw = KW_ATOMS_UNITVECTORS -> _write_array_block(value.val, TAG_ATOMS_UNITVECTORS)
               [] kw = KW_DEFINITION_OF_ATOMIC_SPECIES -> _write_def_atomic_species(value.val)
               [] kw = KW_BAND_KPATH_UNITCELL -> _write_array_block(value.val, TAG_BAND_KPATH_UNITCELL)
               [] OTHER -> <<>>
        ELSE IF value_type = "array"
        THEN LET item_type == dict_get(sch.properties, kw).items
             IN  << join(<<" ">>, <<kw_str>> \o [j \in 1..Len(value.val) |->
                                        format_value(item_type, VInt(value.val[j]))]) >>
        ELSE IF value_type = "boolean"
        THEN << join(<<" ">>, <<kw_str, IF value.val THEN <<"o", "n">> ELSE <<"o", "f", "f">> >>) >>
        ELSE << join(<<" ">>, <<kw_str, format_value(value_type, value)>>) >>

\* write_input_file(parameters, schema): the keywords in the order
\* parameters.items() yields them
RECURSIVE write_items(_, _)
write_items(items, sch) ==
    IF Len(items) = 0 THEN <<>>
    ELSE param_content(items[1].k, items[1].v, sch) \o write_items(Tail(items), sch)

write_input_file(parameters, sch) ==
    LET unknown == {i \in 1..Len(parameters) : ~dict_has(sch.properties, parameters[i].k)}
        no_text == {i \in 1..Len(parameters) : parameters[i].k = KW_BAND_KPATH}
        stops == unknown \cup no_text
    IN  IF stops # {}
        THEN LET first == CHOOSE i \in stops : \A j \in stops : i <= j
             IN  IF first \in unknown
                 THEN \* schema['properties'][kw]
                      Fail(Raise("KeyError", "subscript", <<parameters[first].k>>, <<>>))
                 ELSE \* _write_band_kpath takes no argument and is called with the value
                      Fail(Raise("TypeError", "band_kpath_call", <<parameters[first].k>>, <<>>))
        ELSE Ok(write_items(parameters, sch))

-----------------------------------------------------------------------------
(* calculations/openmx.py *)

_SYSTEM_NAME == str_aiida

_DATA_PATH == str_data_path

_INPUT_FILE == "aiida.in"

_OUTPUT_FILE == "aiida.out"

_DATAFILE_BAND_FILE == "aiida.Band"

_DATAFILE_MD_FILE == "aiida.md"

_DATAFILE_MD2_FILE == "aiida.md2"

\* a check that lets every keyword through
_check_reserved_keywords_passes(parameters) == NoExc

\* _check_reserved_keywords(parameters)
_check_reserved_keywords(parameters) ==
    LET provided_reserved_kws == Filter(dict_keys(parameters), Range(_RESERVED_KEYWORDS))
    IN  IF Len(provided_reserved_kws) > 0
        THEN Raise("InputValidationError", "reserved_keywords", provided_reserved_kws, <<>>)
        ELSE NoExc

\* _generate_input_parameters(structure, kpoints, parameters, pseudos, orbitals,
\* orbital_configurations): the assignments in the order of the source, the
\* first one that raises ends the call
_generate_input_parameters(structure, kpoints, parameters, pseudos, orbitals, orbital_configurations) ==
    LET def_atomic_species == _get_def_atomic_species(structure, pseudos, orbitals, orbital_configurations)
        xc_type == _get_xc_type(pseudos)
        p1 == dict_set(parameters, KW_SYSTEM_NAME, VStr(_SYSTEM_NAME))
        p2 == dict_set(p1, KW_DATA_PATH, VStr(_DATA_PATH))
        p3 == dict_set(p2, KW_LEVEL_OF_STDOUT, VInt(3))
        p4 == dict_set(p3, KW_LEVEL_OF_FILEOUT, VInt(0))
        p5 == dict_set(p4, KW_SPECIES_NUMBER, VInt(Len(structure.kinds)))
        p6 == dict_set(p5, KW_DEFINITION_OF_ATOMIC_SPECIES, VObj(def_atomic_species.value))
        p7 == dict_set(p6, KW_ATOMS_NUMBER, VInt(Len(structure.sites)))
        p8 == dict_set(p7, KW_ATOMS_SPECIESANDCOORDINATES,
                       VArr(_get_atoms_spec_and_coords(structure, orbitals)))
        p9 == dict_set(p8, KW_ATOMS_UNITVECTORS, VArr(structure.cell))
        p10 == dict_set(p9, KW_SCF_XCTYPE, VStr(xc_type.value))
        p11 == dict_set(p10, KW_SCF_KGRID, VArr(kpoints.mesh))
    IN  IF def_atomic_species.exc # NoExc THEN Fail(def_atomic_species.exc)
        ELSE IF xc_type.exc # NoExc THEN Fail(xc_type.exc)
        ELSE IF ~kpoints.has_mesh
        THEN \* kpoints.get_kpoints_mesh() without a mesh
             Fail(Raise("AttributeError", "get_kpoints_mesh", <<>>, <<>>))
        ELSE Ok(p11)

\* a valence check that stops at the first kind whose valences differ
inconsistent_z_valence_first_only(kinds, pseudos, orbitals) ==
    LET differing == {i \in 1..Len(kinds) : pseudos[kinds[i]].z_valence # orbitals[kinds[i]].z_valence}
    IN  IF differing = {} THEN {}
        ELSE LET first == kinds[CHOOSE i \in differing : \A j \in differing : i <= j]
             IN  {<<first, pseudos[first].z_valence, orbitals[first].z_valence>>}

\* the valence check of _validate_inputs: every kind whose valences differ
inconsistent_z_valence(kinds, pseudos, orbitals) ==
    {<<kind, pseudos[kind].z_valence, orbitals[kind].z_valence>> :
        kind \in {kd \in Range(kinds) : pseudos[kd].z_valence # orbitals[kd].z_valence}}

\* _validate_inputs without its last statement
validate_against_schema_skipped(sch, parameters) == NoExc

\* the call of validate_parameters that ends _validate_inputs
validate_against_schema(sch, parameters) == validate_parameters(sch, parameters)

\* _validate_inputs(structure, kpoints, parameters, pseudos, orbitals,
\* orbital_configurations, schema): the exception it raises, or NoExc
_validate_inputs(structure, kpoints, parameters, pseudos, orbitals, orbital_configurations, sch) ==
    LET kinds == structure.kinds
    IN  IF Range(kinds) # DOMAIN pseudos
        THEN Raise("InputValidationError", "pseudos_kinds", kind_keys(pseudos), kinds)
        ELSE IF Cardinality({pseudos[kind].xc_type : kind \in DOMAIN pseudos}) # 1
        THEN Raise("InputValidationError", "xc_types",
                   {pseudos[kind].xc_type : kind \in DOMAIN pseudos}, <<>>)
        ELSE IF Range(kinds) # DOMAIN orbitals
        THEN Raise("InputValidationError", "orbitals_kinds", kind_keys(orbitals), kinds)
        ELSE IF inconsistent_z_valence(kinds, pseudos, orbitals) # {}
        THEN Raise("InputValidationError", "z_valence",
                   inconsistent_z_valence(kinds, pseudos, orbitals), <<>>)
        ELSE IF DOMAIN orbital_configurations # DOMAIN orbitals
        THEN Raise("InputValidationError", "orbital_configurations",
                   kind_keys(orbitals), kind_keys(orbital_configurations))
        ELSE IF ~kpoints.has_mesh
        THEN Raise("InputValidationError", "explicit_kpoints", <<>>, <<>>)
        ELSE IF \E i \in 1..Len(kpoints.offset) : kpoints.offset[i] # 0
        THEN Raise("InputValidationError", "kpoints_shift", <<>>, <<>>)
        ELSE validate_against_schema(sch, parameters)

\* parameters.get(key, default)
dict_get_default(d, key, default) == IF dict_has(d, key) THEN dict_get(d, key) ELSE default

\* `if 'settings' in self.inputs: settings = ...get_dict() else: settings = {}`
settings_of(self_inputs) ==
    IF "settings" \in DOMAIN self_inputs THEN self_inputs.settings ELSE <<>>

\* a retrieve list that leaves out the entries of the settings
retrieve_list_without_additional(parameters, settings) ==
    (IF /\ dict_get_default(parameters, KW_BAND_NKPATH, VInt(0)).val > 0
        /\ dict_get_default(parameters, KW_SCF_EIGENVALUESOLVER,
                            VStr(str_band)) = VStr(str_band)
     THEN <<_DATAFILE_BAND_FILE>> ELSE <<>>)
    \o (IF dict_get_default(parameters, KW_MD_TYPE, VStr(str_nomd)) # VStr(str_nomd)
        THEN <<_DATAFILE_MD_FILE, _DATAFILE_MD2_FILE>> ELSE <<>>)
    \o <<_OUTPUT_FILE>>

\* the retrieve list prepare_for_submission builds from the parameters and
\* the upper-case-key settings
retrieve_list_of(parameters, settings) ==
    (IF /\ dict_get_default(parameters, KW_BAND_NKPATH, VInt(0)).val > 0
        /\ dict_get_default(parameters, KW_SCF_EIGENVALUESOLVER,
                            VStr(str_band)) = VStr(str_band)
     THEN <<_DATAFILE_BAND_FILE>> ELSE <<>>)
    \o (IF dict_get_default(parameters, KW_MD_TYPE, VStr(str_nomd)) # VStr(str_nomd)
        THEN <<_DATAFILE_MD_FILE, _DATAFILE_MD2_FILE>> ELSE <<>>)
    \o <<_OUTPUT_FILE>>
    \o dict_get_default(settings, key_ADDITIONAL_RETRIEVE_LIST, VArr(<<>>)).val

-----------------------------------------------------------------------------
(* The inputs of a calculation *)

\* a StructureData with one site per kind
StructureOf(kinds) ==
    [ kinds |-> kinds,
      sites |-> [i \in 1..Len(kinds) |-> [kind_name |-> kinds[i], position |-> <<(i - 1) * 1500, 0, 0>>]],
      cell |-> << <<3000, 0, 0>>, <<0, 3000, 0>>, <<0, 0, 3000>> >> ]

Structures == {StructureOf(<<kind_A>>), StructureOf(<<kind_A, kind_B>>)}

KindSets == {{kind_A}, {kind_A, kind_B}}

\* VpsData nodes by kind name
PseudoMaps ==
    UNION {{[kind \in ks |-> [xc_type |-> xc[kind], z_valence |-> z[kind], filename |-> kind \o ext_vps]] :
                xc \in {f \in [ks -> {str_PBE, str_LDA}] : f[kind_A] = str_PBE},
                z \in [ks -> 1..MaxValence]} : ks \in KindSets}

\* PaoData nodes by kind name
OrbitalMaps ==
    {[kind \in ks |-> [z_valence |-> 1, filename |-> kind \o <<"7", ".", "0">> \o ext_pao]] : ks \in KindSets}

\* the arrays of the orbital configurations, by name
OrbitalConfigurations == {[kind \in ks |-> <<2, 1, 0, 0>>] : ks \in KindSets}

\* KpointsData: an explicit list of k-points, a mesh, a shifted mesh
KpointsInputs ==
    { [has_mesh |-> FALSE, mesh |-> <<>>, offset |-> <<>>],
      [has_mesh |-> TRUE, mesh |-> <<2, 2, 2>>, offset |-> <<0, 0, 0>>],
      [has_mesh |-> TRUE, mesh |-> <<2, 2, 2>>, offset |-> <<0, 500, 0>>] }

\* the entries a caller may put in the parameters dictionary
CallerItems ==
    { [k |-> key_scf_dot_kgrid, v |-> VArr(<<2, 2, 2>>)],
      [k |-> key_SCF_dot_Kgrid, v |-> VArr(<<3, 3, 3>>)],
      [k |-> key_scf_kgrid, v |-> VArr(<<4, 4, 4>>)],
      [k |-> key_md_type, v |-> VStr(str_NOMD)],
      [k |-> key_SCF_MAXITERS, v |-> VInt(40)],
      [k |-> key_MD_TYPES, v |-> VStr(str_Opt)],
      [k |-> key_level_of_stdout, v |-> VInt(1)],
      [k |-> key_MD_TYPE, v |-> VStr(str_Opt)],
      [k |-> key_SCF_MAXITER, v |-> VInt(40)],
      [k |-> key_MD_TIMESTEP, v |-> VNum(500)],
      [k |-> key_BAND_DISPERSION, v |-> VBool(TRUE)],
      [k |-> key_BAND_KPATH, v |-> VArr(<<>>)],
      [k |-> key_BAND_KPATH_UNITCELL, v |-> VMat(<< <<1000, 0, 0>>, <<0, 1000, 0>>, <<0, 0, 1000>> >>)] }

\* the dictionaries of at most MaxParams entries, in every insertion order
CallerDicts ==
    UNION {{d \in [1..n -> CallerItems] : \A i, j \in 1..n : i # j => d[i].k # d[j].k} : n \in 0..MaxParams}

\* the same entries in every insertion order
Orderings(d) == {e \in [1..Len(d) -> Range(d)] : Range(e) = Range(d)}


-----------------------------------------------------------------------------
(* parsers/openmx.py: constants *)

UNITS_SUFFIX == "_units"

DIPOLE_UNITS == "Debye"

ENERGY_UNITS == "eV"

FORCE_UNITS == "eV/Ang"

COMPUTATIONAL_TIME_UNITS == "s"

\* pymatgen's units.Ha_to_eV, in thousandths
Ha_to_eV == 27211

\* pymatgen's units.bohr_to_ang, in thousandths
bohr_to_ang == 529

ENERGY_NAME_MAPPING ==
    << [k |-> "Uele.", v |-> "u_band"],
       [k |-> "Ukin.", v |-> "u_kinetic"],
       [k |-> "UH0.", v |-> "u_e_screened_coulomb"],
       [k |-> "UH1.", v |-> "u_ee_coulomb"],
       [k |-> "Una.", v |-> "u_neutral_atom"],
       [k |-> "Unl.", v |-> "u_non_local"],
       [k |-> "Uxc0.", v |-> "u_xc_alpha"],
       [k |-> "Uxc1.", v |-> "u_xc_beta"],
       [k |-> "Ucore.", v |-> "u_core_core_coulomb"],
       [k |-> "Uhub.", v |-> "u_hubbard"],
       [k |-> "Ucs.", v |-> "u_spin_constraint"],
       [k |-> "Uzs.", v |-> "u_zeeman_spin_mag"],
       [k |-> "Uzo.", v |-> "u_zeeman_spin_orb"],
       [k |-> "Uef.", v |-> "u_e_field"],
       [k |-> "UvdW.", v |-> "u_vdw"],
       [k |-> "Uch.", v |-> "u_core_hole"],
       [k |-> "Utot.", v |-> "u_tot"],
       [k |-> "UpV.", v |-> "u_press_vol"],
       [k |-> "Enpy.", v |-> "enthalpy"] >>

DIPOLE_NAME_MAPPING ==
    << [k |-> "Total", v |-> "total_dipole"],
       [k |-> "core", v |-> "core_dipole"],
       [k |-> "Electron", v |-> "electron_dipole"],
       [k |-> "Back ground", v |-> "background_dipole"] >>

TIMING_NAME_MAPPING ==
    << [k |-> "readfile", v |-> "read_input"],
       [k |-> "truncation", v |-> "truncation"],
       [k |-> "MD_pac", v |-> "md_pac"],
       [k |-> "OutData", v |-> "write_output"],
       [k |-> "DFT", v |-> "dft"],
       [k |-> "Set_OLP_Kin", v |-> "ovlp_kin"],
       [k |-> "Set_Nonlocal", v |-> "nonlocal"],
       [k |-> "Set_ProExpn_VNA", v |-> "pro_expn_vna"],
       [k |-> "Set_Hamiltonian", v |-> "ham"],
       [k |-> "Poisson", v |-> "poisson"],
       [k |-> "Diagonalization", v |-> "diag"],
       [k |-> "Mixing_DM", v |-> "mixing_dm"],
       [k |-> "Force", v |-> "force"],
       [k |-> "Total_Energy", v |-> "total_ene"],
       [k |-> "Set_Aden_Grid", v |-> "aden_grid"],
       [k |-> "Set_Orbitals_Grid", v |-> "orb_grid"],
       [k |-> "Set_Density_Grid", v |-> "den_grid"],
       [k |-> "RestartFileDFT", v |-> "write_restart"],
       [k |-> "Mulliken_Charge", v |-> "mulliken_chg"],
       [k |-> "FFT(2D)_Density", v |-> "fft_2d_den"],
       [k |-> "Others", v |-> "other"] >>

\* the MD types for which the parser takes the cell from the report
CELL_VARYING_MD_TYPES ==
    {str_optc1, str_optc2, str_optc3, str_optc4, str_optc5, str_optc6, str_optc7,
     str_rfc5, str_rfc6, str_rfc7}

\* the section markers _parse_stdout looks for
MARK_VERSION == "OpenMX Ver."
MARK_MPI == "MPI processes"
MARK_OMP == "OpenMP threads"
MARK_CUTOFF == "Used cutoff energy (Ryd) for 3D-grids"
MARK_GRIDS == "Num. of grids of a-, b-, and c-axes"
MARK_ENERGY == "Total energy (Hartree) at MD"
MARK_EIGENVALUES == "Eigenvalues (Hartree) of SCF KS-eq."
MARK_CELL_OPT == "History of cell optimization"
MARK_DIPOLE == "Dipole moment (Debye)"
MARK_CELL == "Cell vectors (Ang.) and derivatives of total energy"
MARK_XYZ == "xyz-coordinates (Ang.) and forces (Hartree/Bohr)"
MARK_FRAC == "Fractional coordinates of the final structure"
MARK_TIME == "Computational Time (second)"

-----------------------------------------------------------------------------
(* The lines of the stdout file *)

\* A line of the report: `has` is the set of the substrings the parser
\* searches for that the line contains, `f` the numbers among its fields in
\* the order they are written, `s` its other fields the parser reads.
Line(has, f, s) == [has |-> has, f |-> f, s |-> s]

Blank == Line({}, <<>>, <<>>)

Stars == Line({"*"}, <<>>, <<>>)

\* a section heading between two lines of stars
Heading(marker) == <<Stars, Line({marker}, <<>>, <<>>), Stars>>

\* the first lines of the report: version, parallelisation, cutoffs, grids
BannerLines ==
    << Line({MARK_VERSION}, <<>>, << <<"3", ".", "9">> >>),
       Line({MARK_MPI}, <<4>>, <<>>),
       Line({MARK_OMP}, <<1>>, <<>>),
       Line({MARK_CUTOFF}, <<200, 200, 200>>, <<>>),
       Line({MARK_GRIDS}, <<32, 32, 32>>, <<>>) >>

\* the energy block of MD step `step`, printing the components `names`; the
\* value of a component differs from step to step
EnergyBlock(step, names) ==
    LET printed == Filter(dict_keys(ENERGY_NAME_MAPPING), names)
    IN  Heading(MARK_ENERGY) \o <<Blank>>
            \o [j \in 1..Len(printed) |-> Line({printed[j]}, <<0 - (100 * step + j)>>, <<>>)]
            \o <<Blank, Line({"Note:"}, <<>>, <<>>)>>

\* the eigenvalue block: chemical potential, number of states, one k-point
EigenvaluesBlock ==
    Heading(MARK_EIGENVALUES) \o <<Blank, Blank>>
        \o << Line({}, <<0 - 150>>, <<>>), Line({}, <<8>>, <<>>),
              Line({"kloop"}, <<0>>, <<>>), Line({}, <<0, 0, 0>>, <<>>), Blank,
              Line({}, <<1, 0 - 500, 0 - 500>>, <<>>), Line({}, <<2, 0 - 300, 0 - 300>>, <<>>),
              Blank, Blank, Blank >>

DipoleBlock ==
    Heading(MARK_DIPOLE) \o <<Blank, Blank>>
        \o << Line({"Absolute D"}, <<1200>>, <<>>), Blank,
              Line({"Total"}, <<1200, 0, 0>>, <<>>),
              Line({"Electron"}, <<1000, 0, 0>>, <<>>),
              Line({"Back ground"}, <<0, 0, 0>>, <<>>), Blank >>

\* the final cell, larger than a cell of the given edge by `grown`
CellBlock(cell, grown) ==
    Heading(MARK_CELL) \o <<Blank, Blank>>
        \o [i \in 1..3 |-> Line({"a"}, [j \in 1..3 |-> IF i = j THEN cell[i][j] + grown ELSE cell[i][j]]
                                            \o <<1, 2, 3>>, <<>>)]
        \o <<Blank>>

\* the final coordinates of the sites of a structure, each moved by `moved`
XyzBlock(structure, moved) ==
    Heading(MARK_XYZ) \o <<Blank, Blank, Line({"coordinates.forces"}, <<>>, <<>>),
                           Line({}, <<Len(structure.sites)>>, <<>>)>>
        \o [i \in 1..Len(structure.sites) |->
               Line({}, <<i, structure.sites[i].position[1] + moved, structure.sites[i].position[2],
                          structure.sites[i].position[3], 1, 2, 3>>, <<structure.sites[i].kind_name>>)]
        \o <<Line({"coordinates.forces"}, <<>>, <<>>)>>

FracBlock(structure) ==
    Heading(MARK_FRAC) \o <<Blank, Blank>>
        \o [i \in 1..Len(structure.sites) |-> Line({}, <<i, 0, 0, 0>>, <<structure.sites[i].kind_name>>)]
        \o <<Blank>>

TimeBlock ==
    Heading(MARK_TIME) \o <<Blank, Blank, Line({}, <<12345>>, <<>>), Blank>>
        \o << Line({"readfile"}, <<0, 10, 1, 11>>, <<>>),
              Line({"DFT"}, <<0, 9000, 1, 9100>>, <<>>),
              Line({"Others"}, <<0, 5, 1, 6>>, <<>>) >>

-----------------------------------------------------------------------------
(* parsers/openmx.py: OpenmxParser._parse_stdout, the scan of the lines *)

\* The index of the first line from `start` on that contains `needle`, as the
\* loops `while needle not in lines[stop]: stop += 1` find it; 0 when the
\* loop runs past the last line (lines[stop] raises IndexError)
find_sentinel(lines, start, needle) ==
    LET hits == {j \in start..Len(lines) : needle \in lines[j].has}
    IN  IF hits = {} THEN 0 ELSE CHOOSE j \in hits : \A h \in hits : j <= h

\* lines[start:stop], for line numbers counted from 1
slice(lines, start, stop) ==
    IF start >= stop \/ start > Len(lines) THEN <<>>
    ELSE SubSeq(lines, start, IF stop - 1 > Len(lines) THEN Len(lines) ELSE stop - 1)

\* the local variables of _parse_stdout that the scan assigns
NoLocals ==
    [ parameters |-> <<>>,
      energies |-> [i \in 1..Len(ENERGY_NAME_MAPPING) |-> [k |-> ENERGY_NAME_MAPPING[i].v, v |-> <<>>]],
      bands |-> [defined |-> FALSE, e_fermi |-> <<>>, n_states |-> <<>>, k_points |-> <<>>,
                 up |-> <<>>, down |-> <<>>],
      final_cell_vectors |-> [defined |-> FALSE, val |-> <<>>],
      final_cart_coords |-> [defined |-> FALSE, species |-> <<>>, coords |-> <<>>],
      exc |-> NoExc ]

\* an exception raised by the statement `where` of the scan
Throw(st, type, where) == [st EXCEPT !.exc = Raise(type, where, <<>>, <<>>)]

\* float(x) * units.Ha_to_eV / units.bohr_to_ang
to_eV_per_ang(x) == (x * Ha_to_eV * 1000) \div bohr_to_ang

\* the first five tests of the loop body: version, MPI processes, OpenMP
\* threads, cutoff energies, grids
scan_header(st, line) ==
    LET p == st.parameters
    IN  IF MARK_VERSION \in line.has
        THEN [st EXCEPT !.parameters = dict_set(p, "openmx_version", line.s[1])]
        ELSE IF MARK_MPI \in line.has
        THEN [st EXCEPT !.parameters = dict_set(p, "mpi_procs", line.f[1])]
        ELSE IF MARK_OMP \in line.has
        THEN [st EXCEPT !.parameters = dict_set(p, "omp_threads", line.f[1])]
        ELSE IF MARK_CUTOFF \in line.has
        THEN [st EXCEPT !.parameters =
                 dict_set(dict_set(p, "true_scf_ecut", [j \in 1..3 |-> (line.f[j] * Ha_to_eV) \div 2]),
                          "true_scf_ecut" \o UNITS_SUFFIX, ENERGY_UNITS)]
        ELSE IF MARK_GRIDS \in line.has
        THEN [st EXCEPT !.parameters = dict_set(p, "3d_fft_grid", line.f)]
        ELSE st

\* the two loops over the lines of an energy block and over
\* ENERGY_NAME_MAPPING: every component found is appended to its list
RECURSIVE append_energies(_, _)
append_energies(energies, energy_lines) ==
    IF Len(energy_lines) = 0 THEN energies
    ELSE LET energy_line == energy_lines[1]
             appended == [i \in 1..Len(energies) |->
                            IF ENERGY_NAME_MAPPING[i].k \in energy_line.has
                            THEN [k |-> energies[i].k, v |-> Append(energies[i].v, energy_line.f[1] * Ha_to_eV)]
                            ELSE energies[i]]
         IN  append_energies(appended, Tail(energy_lines))

\* if 'Total energy (Hartree) at MD' in line
scan_energies(st, lines, line_i) ==
    IF st.exc # NoExc \/ MARK_ENERGY \notin lines[line_i].has THEN st
    ELSE LET energies_start == line_i + 3
             energies_stop == find_sentinel(lines, energies_start, "Note:")
         IN  IF energies_stop = 0 THEN Throw(st, "IndexError", "energies_stop")
             ELSE [st EXCEPT !.energies = append_energies(st.energies, slice(lines, energies_start, energies_stop))]

\* if 'Eigenvalues (Hartree) of SCF KS-eq.' in line
scan_eigenvalues(st, lines, line_i) ==
    IF st.exc # NoExc \/ MARK_EIGENVALUES \notin lines[line_i].has THEN st
    ELSE LET eigvals_start == line_i + 4
             found == find_sentinel(lines, eigvals_start, "*")
             eigvals_lines == slice(lines, eigvals_start, found - 1)
             kloop_starts == {j \in 1..Len(eigvals_lines) : "kloop" \in eigvals_lines[j].has}
             kloop_seq == Filter([j \in 1..Len(eigvals_lines) |-> j], kloop_starts)
             kloop_lines(n) ==
                 slice(eigvals_lines, kloop_seq[n],
                       IF n < Len(kloop_seq) THEN kloop_seq[n + 1] ELSE Len(eigvals_lines) + 1)
             values(n) == slice(kloop_lines(n), 4, Len(kloop_lines(n)) - 1)
         IN  IF found = 0 THEN Throw(st, "IndexError", "eigvals_stop")
             ELSE IF Len(eigvals_lines) < 2 \/ Len(eigvals_lines[1].f) < 1 \/ Len(eigvals_lines[2].f) < 1
             THEN Throw(st, "IndexError", "eigvals_lines")
             ELSE IF \E n \in 1..Len(kloop_seq) :
                        \/ Len(kloop_lines(n)) < 2
                        \/ Len(kloop_lines(n)[2].f) < 3
                        \/ \E m \in 1..Len(values(n)) : Len(values(n)[m].f) # 3
             THEN Throw(st, "ValueError", "kloop_lines")
             ELSE [st EXCEPT !.bands =
                     [ defined |-> TRUE,
                       e_fermi |-> <<eigvals_lines[1].f[1] * Ha_to_eV>>,
                       n_states |-> <<eigvals_lines[2].f[1]>>,
                       k_points |-> [n \in 1..Len(kloop_seq) |-> kloop_lines(n)[2].f],
                       up |-> [n \in 1..Len(kloop_seq) |->
                                  [m \in 1..Len(values(n)) |-> values(n)[m].f[2] * Ha_to_eV]],
                       down |-> [n \in 1..Len(kloop_seq) |->
                                    [m \in 1..Len(values(n)) |-> values(n)[m].f[3] * Ha_to_eV]] ]]

\* if 'History of cell optimization' in line: the local `cell_opt` is not
\* used after the scan
scan_cell_opt(st, lines, line_i) ==
    IF st.exc # NoExc \/ MARK_CELL_OPT \notin lines[line_i].has THEN st
    ELSE LET cell_opt_start == line_i + 7
             cell_opt_stop == find_sentinel(lines, cell_opt_start, "*")
             cell_opt_lines == slice(lines, cell_opt_start, cell_opt_stop - 1)
         IN  IF cell_opt_stop = 0 THEN Throw(st, "IndexError", "cell_opt_stop")
             ELSE IF \E n \in 1..Len(cell_opt_lines) : Len(cell_opt_lines[n].f) # 7
             THEN Throw(st, "ValueError", "cell_opt_line")
             ELSE st

\* the loop over the lines of the dipole block
RECURSIVE read_dipoles(_, _)
read_dipoles(p, dipole_lines) ==
    IF Len(dipole_lines) = 0 THEN p
    ELSE LET dipole_line == dipole_lines[1]
             named == {i \in 1..Len(DIPOLE_NAME_MAPPING) : DIPOLE_NAME_MAPPING[i].k \in dipole_line.has}
             name == DIPOLE_NAME_MAPPING[CHOOSE i \in named : TRUE].v
             q == IF "Absolute D" \in dipole_line.has
                  THEN dict_set(dict_set(p, "abs_dipole_mom", dipole_line.f[1]),
                                "abs_dipole_mom" \o UNITS_SUFFIX, DIPOLE_UNITS)
                  ELSE IF named # {}
                  THEN dict_set(dict_set(p, name, dipole_line.f), name \o UNITS_SUFFIX, DIPOLE_UNITS)
                  ELSE p
         IN  read_dipoles(q, Tail(dipole_lines))

\* if 'Dipole moment (Debye)' in line
scan_dipole(st, lines, line_i) ==
    IF st.exc # NoExc \/ MARK_DIPOLE \notin lines[line_i].has THEN st
    ELSE LET dipole_start == line_i + 4
             dipole_stop == find_sentinel(lines, dipole_start, "*")
         IN  IF dipole_stop = 0 THEN Throw(st, "IndexError", "dipole_stop")
             ELSE [st EXCEPT !.parameters = read_dipoles(st.parameters, slice(lines, dipole_start, dipole_stop))]

\* if 'Cell vectors (Ang.) and derivatives of total energy' in line
scan_cell(st, lines, line_i) ==
    IF st.exc # NoExc \/ MARK_CELL \notin lines[line_i].has THEN st
    ELSE LET cell_start == line_i + 4
             cell_stop == find_sentinel(lines, cell_start, "*")
             cell_lines == slice(lines, cell_start, cell_stop)
             vector_lines == {n \in 1..Len(cell_lines) : "a" \in cell_lines[n].has}
             vectors == Filter([n \in 1..Len(cell_lines) |-> n], vector_lines)
             final_de_dcell ==
                 [n \in 1..Len(vectors) |-> [j \in 1..3 |-> to_eV_per_ang(cell_lines[vectors[n]].f[3 + j])]]
         IN  IF cell_stop = 0 THEN Throw(st, "IndexError", "cell_stop")
             ELSE IF \E n \in vector_lines : Len(cell_lines[n].f) # 6
             THEN Throw(st, "ValueError", "cell_line")
             ELSE [st EXCEPT
                     !.final_cell_vectors =
                         [defined |-> TRUE,
                          val |-> [n \in 1..Len(vectors) |-> SubSeq(cell_lines[vectors[n]].f, 1, 3)]],
                     !.parameters =
                         dict_set(dict_set(st.parameters, "final_de_dcell", final_de_dcell),
                                  "final_de_dcell" \o UNITS_SUFFIX, FORCE_UNITS)]

\* if 'xyz-coordinates (Ang.) and forces (Hartree/Bohr)' in line
scan_xyz(st, lines, line_i) ==
    IF st.exc # NoExc \/ MARK_XYZ \notin lines[line_i].has THEN st
    ELSE LET final_cart_coords_start == line_i + 6
             final_cart_coords_stop == find_sentinel(lines, final_cart_coords_start, "coordinates.forces")
             atom_lines == slice(lines, final_cart_coords_start, final_cart_coords_stop)
             final_forces ==
                 [n \in 1..Len(atom_lines) |-> [j \in 1..3 |-> to_eV_per_ang(atom_lines[n].f[4 + j])]]
         IN  IF final_cart_coords_stop = 0 THEN Throw(st, "IndexError", "final_cart_coords_stop")
             ELSE IF \E n \in 1..Len(atom_lines) : Len(atom_lines[n].f) # 7 \/ Len(atom_lines[n].s) # 1
             THEN Throw(st, "ValueError", "final_cart_coords_line")
             ELSE [st EXCEPT
                     !.final_cart_coords =
                         [defined |-> TRUE,
                          species |-> [n \in 1..Len(atom_lines) |-> atom_lines[n].s[1]],
                          coords |-> [n \in 1..Len(atom_lines) |-> SubSeq(atom_lines[n].f, 2, 4)]],
                     !.parameters =
                         dict_set(dict_set(st.parameters, "final_forces", final_forces),
                                  "final_forces" \o UNITS_SUFFIX, FORCE_UNITS)]

\* if 'Fractional coordinates of the final structure' in line: the local
\* `final_frac_coords` is not used after the scan
scan_frac(st, lines, line_i) ==
    IF st.exc # NoExc \/ MARK_FRAC \notin lines[line_i].has THEN st
    ELSE LET final_frac_coords_start == line_i + 4
             final_frac_coords_stop == find_sentinel(lines, final_frac_coords_start, "*")
             atom_lines == slice(lines, final_frac_coords_start, final_frac_coords_stop - 1)
         IN  IF final_frac_coords_stop = 0 THEN Throw(st, "IndexError", "final_frac_coords_stop")
             ELSE IF \E n \in 1..Len(atom_lines) : Len(atom_lines[n].f) # 4 \/ Len(atom_lines[n].s) # 1
             THEN Throw(st, "ValueError", "final_frac_coords_line")
             ELSE st

\* the loop over the timing lines and TIMING_NAME_MAPPING; the test
\* `key in line` reads `line`, the line of the marker
RECURSIVE read_timings(_, _, _)
read_timings(timing, timing_lines, line) ==
    IF Len(timing_lines) = 0 THEN timing
    ELSE LET timing_line == timing_lines[1]
             keys == Filter([i \in 1..Len(TIMING_NAME_MAPPING) |-> i],
                            {i \in 1..Len(TIMING_NAME_MAPPING) : TIMING_NAME_MAPPING[i].k \in line.has})
             timing_tmp == [min_id |-> timing_line.f[1], min_time |-> timing_line.f[2],
                            max_id |-> timing_line.f[3], max_time |-> timing_line.f[4]]
             RECURSIVE add(_, _)
             add(t, ks) ==
                 IF Len(ks) = 0 THEN t
                 ELSE add(dict_set(dict_set(t, TIMING_NAME_MAPPING[ks[1]].v, timing_tmp),
                                   TIMING_NAME_MAPPING[ks[1]].v \o UNITS_SUFFIX, COMPUTATIONAL_TIME_UNITS),
                          Tail(ks))
         IN  read_timings(add(timing, keys), Tail(timing_lines), line)

\* {**parameters, **timing}
RECURSIVE dict_merge(_, _)
dict_merge(d, e) ==
    IF Len(e) = 0 THEN d ELSE dict_merge(dict_set(d, e[1].k, e[1].v), Tail(e))

\* if 'Computational Time (second)' in line
scan_time(st, lines, line_i) ==
    IF st.exc # NoExc \/ MARK_TIME \notin lines[line_i].has THEN st
    ELSE LET timing_start_i == line_i + 4
             timing_stop_i == Len(lines) + 1
             elapsed == dict_set(dict_set(<<>>, "elapsed_time", lines[timing_start_i].f[1]),
                                 "elapsed_time" \o UNITS_SUFFIX, COMPUTATIONAL_TIME_UNITS)
             timing == read_timings(elapsed, slice(lines, timing_start_i + 1, timing_stop_i), lines[line_i])
         IN  IF timing_start_i > Len(lines) \/ Len(lines[timing_start_i].f) < 1
             THEN Throw(st, "IndexError", "timing_start_i")
             ELSE [st EXCEPT !.parameters = dict_merge(st.parameters, timing)]

\* the body of `for line_i, line in enumerate(lines)` for one line
scan_line(st, lines, line_i) ==
    scan_time(scan_frac(scan_xyz(scan_cell(scan_dipole(scan_cell_opt(scan_eigenvalues(scan_energies(
        scan_header(st, lines[line_i]), lines, line_i), lines, line_i), lines, line_i), lines, line_i),
        lines, line_i), lines, line_i), lines, line_i), lines, line_i)

\* lines 363-370: the last value of every energy, the Fermi energy and the
\* number of states are put into `parameters`
RECURSIVE put_energies(_, _)
put_energies(p, energies) ==
    IF Len(energies) = 0 THEN p
    ELSE put_energies(dict_set(dict_set(p, energies[1].k, energies[1].v[Len(energies[1].v)]),
                               energies[1].k \o UNITS_SUFFIX, ENERGY_UNITS),
                      Tail(energies))

output_parameters_of(st) ==
    IF \E i \in 1..Len(st.energies) : Len(st.energies[i].v) = 0
    THEN \* value[-1] of an empty list
         Fail(Raise("IndexError", "energies", <<>>, <<>>))
    ELSE IF ~st.bands.defined
    THEN \* `bands` was never assigned
         Fail(Raise("UnboundLocalError", "bands", <<>>, <<>>))
    ELSE Ok(dict_set(dict_set(dict_set(put_energies(st.parameters, st.energies),
                                       "e_fermi", st.bands.e_fermi[Len(st.bands.e_fermi)]),
                              "e_fermi" \o UNITS_SUFFIX, ENERGY_UNITS),
                     "n_states", st.bands.n_states[Len(st.bands.n_states)]))

\* lines 374-388: the final structure; kinds(name) tells whether the initial
\* structure has a kind of that name
output_structure_of(md_type, initial_structure, st) ==
    IF md_type \in CELL_VARYING_MD_TYPES /\ ~st.final_cell_vectors.defined
    THEN Fail(Raise("UnboundLocalError", "final_cell_vectors", <<>>, <<>>))
    ELSE IF ~st.final_cart_coords.defined
    THEN Fail(Raise("UnboundLocalError", "final_cart_coords", <<>>, <<>>))
    ELSE IF \E n \in 1..Len(st.final_cart_coords.species) :
               st.final_cart_coords.species[n] \notin Range(initial_structure.kinds)
    THEN \* initial_structure.get_kind(specie)
         Fail(Raise("ValueError", "get_kind", <<>>, <<>>))
    ELSE Ok([ cell |-> IF md_type \in CELL_VARYING_MD_TYPES
                       THEN st.final_cell_vectors.val ELSE initial_structure.cell,
              sites |-> [n \in 1..Len(st.final_cart_coords.species) |->
                            [kind_name |-> st.final_cart_coords.species[n],
                             position |-> st.final_cart_coords.coords[n]]] ])
-----------------------------------------------------------------------------
(* utils/_parameters.py: the entries of PARAMETERS that declare limits *)

\* 'lims': (lo, hi)
Lims(lo, hi) == [lo |-> lo, hi |-> hi, hi_is_inf |-> FALSE]

\* 'lims': (lo, np.inf)
LimsInf(lo) == [lo |-> lo, hi |-> 0, hi_is_inf |-> TRUE]

\* Values of the float parameters are whole numbers of millionths.
PARAMETERS ==
    << [k |-> name_level_of_stdout, v |-> [type |-> "int", default |-> 1, lims |-> Lims(1, 3)]],
       [k |-> name_level_of_fileout, v |-> [type |-> "int", default |-> 1, lims |-> Lims(0, 3)]],
       [k |-> name_MD_maxIter, v |-> [type |-> "int", default |-> 1, lims |-> LimsInf(1)]],
       [k |-> name_MD_TimeStep, v |-> [type |-> "float", default |-> 500000, lims |-> LimsInf(0)]],
       [k |-> name_MD_Opt_DIIS_History, v |-> [type |-> "int", default |-> 3, lims |-> Lims(0, 19)]],
       [k |-> name_scf_Kgrid, v |-> [type |-> "Iterable[int]", default |-> <<4, 4, 4>>, lims |-> LimsInf(1)]],
       [k |-> name_scf_criterion, v |-> [type |-> "float", default |-> 1, lims |-> LimsInf(0)]],
       [k |-> name_scf_maxIter, v |-> [type |-> "int", default |-> 40, lims |-> LimsInf(1)]] >>

\* the keyword of the input dictionary that a table name stands for
keyword_of(name) == [i \in 1..Len(name) |-> IF name[i] = "." THEN "_" ELSE UpperChar(name[i])]

\* lower < value <= upper for one number
in_lims(x, lims) == lims.lo < x /\ (lims.hi_is_inf \/ x <= lims.hi)

\* the bounds check of the validator: every number of the value is in the limits
check_lims(entry, value) ==
    IF entry.type = "Iterable[int]"
    THEN \A i \in 1..Len(value) : in_lims(value[i], entry.lims)
    ELSE in_lims(value, entry.lims)

-----------------------------------------------------------------------------
(* State *)

VARIABLES
    inputs,              \* the input nodes of the calculation
    pc,                  \* the call prepare_for_submission makes next
    parameters,          \* the local variable `parameters`
    exc,                 \* the exception prepare_for_submission raised, or NoExc
    input_file_content,  \* the local variable `input_file_content`
    folder,              \* the files written to the job folder, by name
    calcinfo,            \* the CalcInfo returned
    invocation,          \* 1 for the first call, 2 for the second
    previous,            \* the input file the first call wrote
    dictionary,          \* the dict self.inputs.parameters.get_dict() returned to the call
    probe                \* a value checked against the limits of a parameter

\* the state of OpenmxParser.parse; it shares `inputs` (the inputs of the
\* node), `pc`, `parameters` (the local of that name) and `exc`
VARIABLES
    retrieved,           \* the retrieved folder of the calculation node
    lines,               \* the lines read from the stdout file
    line_i,              \* the line the scan is at, counted from 1
    md_type,             \* the local variable `md_type`
    energies,            \* the local variable `energies`
    bands,               \* the local variable `bands`
    final_cell_vectors,  \* the local variable `final_cell_vectors`
    final_cart_coords,   \* the local variable `final_cart_coords`
    outputs,             \* the output nodes attached with self.out
    exit_code,           \* the exit code parse returned
    ctx                  \* the context of DosWorkChain; only its steps change it

parser_vars == <<retrieved, lines, line_i, md_type, energies, bands, final_cell_vectors,
                 final_cart_coords, outputs, exit_code, ctx>>

vars == <<inputs, pc, parameters, exc, input_file_content, folder, calcinfo, invocation, previous,
          dictionary, probe, parser_vars>>

\* no parser is running
ParserIdle ==
    /\ retrieved = <<>>
    /\ lines = <<>>
    /\ line_i = 0
    /\ md_type = <<>>
    /\ energies = <<>>
    /\ bands = <<>>
    /\ final_cell_vectors = <<>>
    /\ final_cart_coords = <<>>
    /\ outputs = <<>>
    /\ exit_code = <<>>
    /\ ctx = <<>>

NoCalcInfo == [returned |-> FALSE, retrieve_list |-> <<>>]

NoProbe == [name |-> <<>>, value |-> 0, origin |-> "none", outcome |-> "none"]

CalculationInputs ==
    [ structure : Structures, kpoints : KpointsInputs, parameters : CallerDicts,
      pseudos : PseudoMaps, orbitals : OrbitalMaps, orbital_configurations : OrbitalConfigurations ]

Init ==
    /\ inputs \in CalculationInputs
    /\ pc = "uppercase_dict_keys"
    /\ parameters = <<>>
    /\ exc = NoExc
    /\ input_file_content = <<>>
    /\ folder = <<>>
    /\ calcinfo = NoCalcInfo
    /\ invocation = 1
    /\ previous = <<>>
    /\ dictionary = inputs.parameters
    /\ probe = NoProbe
    /\ ParserIdle

\* an exception leaves prepare_for_submission
Raised(e) ==
    /\ pc' = "raised"
    /\ exc' = e

\* settings = uppercase_dict_keys(self.inputs.settings.get_dict(), ...) when
\* settings are given, then
\* parameters = uppercase_dict_keys(self.inputs.parameters.get_dict(), ...)
UppercaseKeys ==
    /\ pc = "uppercase_dict_keys"
    /\ LET settings == uppercase_dict_keys(settings_of(inputs))
           r == uppercase_dict_keys(dictionary)
       IN  IF settings.exc # NoExc
           THEN Raised(settings.exc) /\ UNCHANGED <<parameters, dictionary>>
           ELSE /\ IF r.exc # NoExc
                   THEN Raised(r.exc) /\ UNCHANGED parameters
                   ELSE pc' = "_check_reserved_keywords" /\ parameters' = r.value /\ UNCHANGED exc
                /\ dictionary' = dictionary_after_case_transform_dict_keys(dictionary, "str.upper")
    /\ UNCHANGED <<inputs, input_file_content, folder, calcinfo, invocation, previous, probe>>
    /\ UNCHANGED parser_vars

\* self._check_reserved_keywords(parameters)
CheckReservedKeywords ==
    /\ pc = "_check_reserved_keywords"
    /\ LET e == _check_reserved_keywords(parameters)
       IN  IF e # NoExc THEN Raised(e) ELSE pc' = "_generate_input_parameters" /\ UNCHANGED exc
    /\ UNCHANGED <<inputs, parameters, input_file_content, folder, calcinfo, invocation, previous, dictionary, probe>>
    /\ UNCHANGED parser_vars

\* parameters = self._generate_input_parameters(...)
GenerateInputParameters ==
    /\ pc = "_generate_input_parameters"
    /\ LET r == _generate_input_parameters(inputs.structure, inputs.kpoints, parameters,
                                           inputs.pseudos, inputs.orbitals, inputs.orbital_configurations)
       IN  IF r.exc # NoExc
           THEN Raised(r.exc) /\ UNCHANGED parameters
           ELSE pc' = "lowercase_dict_values" /\ parameters' = r.value /\ UNCHANGED exc
    /\ UNCHANGED <<inputs, input_file_content, folder, calcinfo, invocation, previous, dictionary, probe>>
    /\ UNCHANGED parser_vars

\* parameters = lowercase_dict_values(parameters)
LowercaseValues ==
    /\ pc = "lowercase_dict_values"
    /\ parameters' = lowercase_dict_values(parameters)
    /\ pc' = "_validate_inputs"
    /\ UNCHANGED <<inputs, exc, input_file_content, folder, calcinfo, invocation, previous, dictionary, probe>>
    /\ UNCHANGED parser_vars

\* self._validate_inputs(...)
ValidateInputs ==
    /\ pc = "_validate_inputs"
    /\ LET e == _validate_inputs(inputs.structure, inputs.kpoints, parameters, inputs.pseudos,
                                 inputs.orbitals, inputs.orbital_configurations, schema)
       IN  IF e # NoExc THEN Raised(e) ELSE pc' = "write_input_file" /\ UNCHANGED exc
    /\ UNCHANGED <<inputs, parameters, input_file_content, folder, calcinfo, invocation, previous, dictionary, probe>>
    /\ UNCHANGED parser_vars

\* input_file_content = write_input_file(parameters, schema)
WriteInputFile ==
    /\ pc = "write_input_file"
    /\ LET r == write_input_file(parameters, schema)
       IN  IF r.exc # NoExc
           THEN Raised(r.exc) /\ UNCHANGED input_file_content
           ELSE pc' = "folder_open" /\ input_file_content' = r.value /\ UNCHANGED exc
    /\ UNCHANGED <<inputs, parameters, folder, calcinfo, invocation, previous, dictionary, probe>>
    /\ UNCHANGED parser_vars

\* the rest of prepare_for_submission: the retrieve list, the input file
\* written to the folder, the CalcInfo returned
WriteFolderAndReturn ==
    /\ pc = "folder_open"
    /\ folder' = Append(folder, [name |-> _INPUT_FILE, content |-> input_file_content])
    /\ calcinfo' = [returned |-> TRUE, retrieve_list |-> retrieve_list_of(parameters, uppercase_dict_keys(settings_of(inputs)).value)]
    /\ pc' = "returned"
    /\ UNCHANGED <<inputs, parameters, exc, input_file_content, invocation, previous, dictionary, probe>>
    /\ UNCHANGED parser_vars

\* The engine calls prepare_for_submission again, on a new process with a
\* new folder, for a parameters node that holds the same entries; the
\* entries may have been inserted in another order.
SecondInvocation ==
    /\ pc = "returned"
    /\ invocation = 1
    /\ \E d \in Orderings(inputs.parameters) :
          /\ inputs' = [inputs EXCEPT !.parameters = d]
          /\ dictionary' = d
    /\ previous' = folder[1].content
    /\ invocation' = 2
    /\ pc' = "uppercase_dict_keys"
    /\ parameters' = <<>>
    /\ input_file_content' = <<>>
    /\ folder' = <<>>
    /\ calcinfo' = NoCalcInfo
    /\ UNCHANGED <<exc, probe>>
    /\ UNCHANGED parser_vars

Next ==
    \/ UppercaseKeys
    \/ CheckReservedKeywords
    \/ GenerateInputParameters
    \/ LowercaseValues
    \/ ValidateInputs
    \/ WriteInputFile
    \/ WriteFolderAndReturn
    \/ SecondInvocation

Spec == Init /\ [][Next]_vars

-----------------------------------------------------------------------------
(* Checking values against the limits of PARAMETERS *)

\* the parameters the composer derives for a valid calculation
InjectedParameters ==
    _generate_input_parameters(
        StructureOf(<<kind_A>>), [has_mesh |-> TRUE, mesh |-> <<2, 2, 2>>, offset |-> <<0, 0, 0>>], <<>>,
        [kind \in {kind_A} |-> [xc_type |-> str_PBE, z_valence |-> 1, filename |-> kind \o ext_vps]],
        [kind \in {kind_A} |-> [z_valence |-> 1, filename |-> kind \o ext_pao]],
        [kind \in {kind_A} |-> <<2, 1, 0, 0>>]).value

\* the values to check: around the limits, the declared default, and what
\* the composer itself assigns to the keyword
ProbeValues(entry) ==
    LET numbers == (entry.v.lims.lo - 1)..(IF entry.v.lims.hi_is_inf THEN ProbeMax ELSE entry.v.lims.hi + 1)
        caller == IF entry.v.type = "Iterable[int]"
                  THEN {[value |-> <<x, x, x>>, origin |-> "caller"] : x \in numbers}
                  ELSE {[value |-> x, origin |-> "caller"] : x \in numbers}
        default == {[value |-> entry.v.default, origin |-> "default"]}
        injected == IF dict_has(InjectedParameters, keyword_of(entry.k))
                    THEN {[value |-> dict_get(InjectedParameters, keyword_of(entry.k)).val, origin |-> "injected"]}
                    ELSE {}
    IN  caller \cup default \cup injected

Probes ==
    UNION {{[name |-> PARAMETERS[i].k, value |-> pv.value, origin |-> pv.origin, outcome |-> "pending"] :
                pv \in ProbeValues(PARAMETERS[i])} : i \in 1..Len(PARAMETERS)}

InitLims ==
    /\ probe \in Probes
    /\ inputs = <<>>
    /\ pc = "idle"
    /\ parameters = <<>>
    /\ exc = NoExc
    /\ input_file_content = <<>>
    /\ folder = <<>>
    /\ calcinfo = NoCalcInfo
    /\ invocation = 1
    /\ previous = <<>>
    /\ dictionary = <<>>
    /\ ParserIdle

\* the validator checks the value against the limits of its keyword
CheckLims ==
    /\ probe.outcome = "pending"
    /\ probe' = [probe EXCEPT !.outcome =
                    IF check_lims(dict_get(PARAMETERS, probe.name), probe.value) THEN "accepted" ELSE "rejected"]
    /\ UNCHANGED <<inputs, pc, parameters, exc, input_file_content, folder, calcinfo, invocation, previous, dictionary>>
    /\ UNCHANGED parser_vars

NextLims == CheckLims

SpecLims == InitLims /\ [][NextLims]_vars

-----------------------------------------------------------------------------
(* Predicates on the inputs of a call *)

Finished == pc \in {"raised", "returned"}

\* the caller's keys after upper-casing
UpperKeys == {str_upper(inputs.parameters[i].k) : i \in 1..Len(inputs.parameters)}

\* two of the caller's keys are equal after case normalisation
KeysCollide == Cardinality(UpperKeys) # Len(inputs.parameters)

\* the caller's keys that collide with another key
CollidingKeys ==
    {inputs.parameters[i].k : i \in {n \in 1..Len(inputs.parameters) :
        \E m \in 1..Len(inputs.parameters) :
            m # n /\ str_upper(inputs.parameters[m].k) = str_upper(inputs.parameters[n].k)}}

\* the caller's keys that name a reserved keyword, whatever the letter case
\* and whether written with dots or with underscores
ReservedSupplied == {key \in UpperKeys : keyword_of(key) \in Range(_RESERVED_KEYWORDS)}

\* the caller's keys that the keyword table does not have
UnknownSupplied == UpperKeys \ Range(dict_keys(schema.properties))

\* the caller's dictionary alone would pass every check
ParametersAcceptable == ~KeysCollide /\ ReservedSupplied = {} /\ UnknownSupplied = {}

KindsOfStructure == Range(inputs.structure.kinds)

XcTypes == {inputs.pseudos[kind].xc_type : kind \in DOMAIN inputs.pseudos}

\* the kinds whose pseudopotential and basis disagree on the valence
MismatchingKinds ==
    {kind \in KindsOfStructure : inputs.pseudos[kind].z_valence # inputs.orbitals[kind].z_valence}

\* basis sets and orbital configurations cover the kinds of the structure
BasisCoversKinds ==
    /\ DOMAIN inputs.orbitals = KindsOfStructure
    /\ DOMAIN inputs.orbital_configurations = KindsOfStructure

PseudosCoverKinds == DOMAIN inputs.pseudos = KindsOfStructure

RegularUnshiftedMesh ==
    inputs.kpoints.has_mesh /\ \A i \in 1..Len(inputs.kpoints.offset) : inputs.kpoints.offset[i] = 0

-----------------------------------------------------------------------------
(* Claims *)

\* C1: when the kinds of the structure differ from the keys of the pseudos
\* (all other inputs being acceptable), prepare_for_submission ends with the
\* kind-mismatch InputValidationError, whose message names the pseudo keys and
\* the kinds; no exception of another type is raised first.
C1_KindMismatchIsInputValidationError ==
    (/\ Finished
     /\ ~PseudosCoverKinds
     /\ ParametersAcceptable /\ BasisCoversKinds /\ RegularUnshiftedMesh /\ Cardinality(XcTypes) = 1)
    => /\ pc = "raised"
       /\ exc.type = "InputValidationError"
       /\ exc.id = "pseudos_kinds"
       /\ exc.a = kind_keys(inputs.pseudos)
       /\ exc.b = inputs.structure.kinds

\* C2: when the pseudos do not share one exchange-correlation type (all other
\* inputs being acceptable), prepare_for_submission ends with an
\* InputValidationError and no input file has been written.
C2_MixedXcTypesIsInputValidationError ==
    (/\ Finished
     /\ Cardinality(XcTypes) # 1
     /\ ParametersAcceptable /\ PseudosCoverKinds /\ BasisCoversKinds /\ RegularUnshiftedMesh)
    => /\ pc = "raised"
       /\ exc.type = "InputValidationError"
       /\ folder = <<>>

\* C3: whenever _validate_inputs runs for a structure, pseudos and orbitals
\* that cover the same kinds, it raises the valence InputValidationError
\* naming every mismatching kind with both valences if some kind mismatches,
\* and does not raise the valence error if none does.
C3_ValenceMismatchNamesEveryKind ==
    [][(/\ pc = "_validate_inputs"
        /\ PseudosCoverKinds
        /\ DOMAIN inputs.orbitals = KindsOfStructure)
       => /\ MismatchingKinds # {}
             => /\ pc' = "raised"
                /\ exc'.type = "InputValidationError"
                /\ exc'.id = "z_valence"
                /\ exc'.a = {<<kind, inputs.pseudos[kind].z_valence, inputs.orbitals[kind].z_valence>> :
                                kind \in MismatchingKinds}
          /\ MismatchingKinds = {} => exc'.id # "z_valence"]_vars

\* C3 witness: the valence error was raised for two mismatching kinds at once
C3_Witness ==
    /\ pc = "raised"
    /\ exc.id = "z_valence"
    /\ Cardinality(exc.a) = 2
    /\ MismatchingKinds = {kind_A, kind_B}

\* C4: when two of the caller's keys are equal after case normalisation,
\* prepare_for_submission ends with the duplicate-key InputValidationError
\* naming the colliding keys, and with no exception of another type.
C4_KeyCollisionIsInputValidationError ==
    (Finished /\ KeysCollide)
    => /\ pc = "raised"
       /\ exc.type = "InputValidationError"
       /\ exc.id = "duplicate_keys"
       /\ Range(exc.a) \in {CollidingKeys, {str_upper(key) : key \in CollidingKeys}}

\* C5: when the caller supplies a key that names a reserved keyword, with
\* dots or with underscores and in any letter case (and no two keys collide),
\* prepare_for_submission ends with the reserved-keyword InputValidationError
\* listing every such key.
C5_ReservedKeywordIsRejected ==
    (Finished /\ ~KeysCollide /\ ReservedSupplied # {})
    => /\ pc = "raised"
       /\ exc.type = "InputValidationError"
       /\ exc.id = "reserved_keywords"
       /\ Range(exc.a) = ReservedSupplied

\* C6: with all other inputs acceptable, prepare_for_submission ends with an
\* InputValidationError for an explicit k-point list and for a mesh with a
\* nonzero shift, and accepts a regular unshifted mesh, whose mesh becomes
\* SCF_KGRID.
C6_KpointsAreValidated ==
    (/\ Finished
     /\ ParametersAcceptable /\ PseudosCoverKinds /\ BasisCoversKinds
     /\ Cardinality(XcTypes) = 1 /\ MismatchingKinds = {})
    => /\ ~RegularUnshiftedMesh => pc = "raised" /\ exc.type = "InputValidationError"
       /\ RegularUnshiftedMesh
             => pc = "returned" /\ dict_get(parameters, KW_SCF_KGRID) = VArr(inputs.kpoints.mesh)

\* C7: a value equal to the lower limit of its keyword is rejected and a value
\* equal to the upper limit is accepted; every value the composer assigns to
\* a keyword and every declared default is accepted.
C7_LimitsAdmitInjectedValuesAndDefaults ==
    probe.outcome \in {"accepted", "rejected"}
    => LET entry == dict_get(PARAMETERS, probe.name)
       IN  /\ (probe.origin = "caller" /\ entry.type # "Iterable[int]" /\ probe.value = entry.lims.lo)
                 => probe.outcome = "rejected"
           /\ (probe.origin = "caller" /\ entry.type # "Iterable[int]"
                 /\ ~entry.lims.hi_is_inf /\ probe.value = entry.lims.hi)
                 => probe.outcome = "accepted"
           /\ probe.origin \in {"injected", "default"} => probe.outcome = "accepted"

in_table_order(d) ==
    LET present == Filter(dict_keys(schema.properties), Range(dict_keys(d)))
    IN  [i \in 1..Len(present) |-> [k |-> present[i], v |-> dict_get(d, present[i])]]

\* C9: the text write_input_file returns has the keywords in the order of the
\* keyword table, not in the insertion order of the dictionary: for the same
\* entries inserted in another order it returns the same text.
C9_KeywordsInTableOrder ==
    pc \in {"folder_open", "returned"}
    => /\ input_file_content = write_items(in_table_order(parameters), schema)
       /\ invocation = 2 => input_file_content = previous

\* C10: a second call of prepare_for_submission on inputs equal to those of
\* the first call writes the same input file, byte for byte.
C10_SecondInvocationWritesSameFile ==
    (invocation = 2 /\ pc = "returned") => folder[1].content = previous


-----------------------------------------------------------------------------
(* Claims on the text of the input file and on the order of the steps *)

\* the text a scalar value has in the input file when written as the caller
\* gave it: twelve decimals, bare digits, on/off, or the characters of a string
scalar_text(value) ==
    CASE value.type = "number" -> format_012f(value.val)
      [] value.type = "integer" -> format_d(value.val)
      [] value.type = "boolean" -> (IF value.val THEN <<"o", "n">> ELSE <<"o", "f", "f">>)
      [] OTHER -> value.val

\* the caller's entries that are scalars and have no block writer
ScalarEntries ==
    {i \in 1..Len(inputs.parameters) :
        /\ inputs.parameters[i].v.type \in {"number", "integer", "boolean", "string"}
        /\ str_upper(inputs.parameters[i].k) \notin _BLOCK_PARAMETER_WRITERS}

\* C11: in the input file a call returns with, every scalar keyword of the
\* caller is one line 'NAME value': NAME the keyword with '.' for '_', a
\* float with twelve decimals, an integer as digits, a boolean as on/off, a
\* string with exactly the characters the caller supplied.
C11_ScalarsWrittenAsSupplied ==
    pc = "returned"
    => \A i \in ScalarEntries :
          \E n \in 1..Len(folder[1].content) :
              folder[1].content[n] =
                  replace_underscore(str_upper(inputs.parameters[i].k)) \o <<" ">>
                      \o scalar_text(inputs.parameters[i].v)

\* the block keywords among the parameters handed to write_input_file
BlockKeywordsPresent == Range(dict_keys(parameters)) \cap _BLOCK_PARAMETER_WRITERS

\* the text holds a line '<TAG' and, after it, a line 'TAG>'
Tagged(text, tag) ==
    \E m, n \in 1..Len(text) :
        /\ m < n
        /\ text[m] = <<"<">> \o tag
        /\ text[n] = tag \o <<">">>

\* C12: whenever write_input_file is called, it returns a text that holds,
\* for every block keyword among the parameters, the line '<TAG', the payload
\* and the line 'TAG>', TAG being the keyword with '.' for '_'.
C12_BlocksAreTagged ==
    [][pc = "write_input_file"
       => /\ pc' = "folder_open"
          /\ \A kw \in BlockKeywordsPresent : Tagged(input_file_content', replace_underscore(kw))]_vars

AllChecksPass ==
    /\ ParametersAcceptable
    /\ PseudosCoverKinds
    /\ BasisCoversKinds
    /\ Cardinality(XcTypes) = 1
    /\ MismatchingKinds = {}
    /\ RegularUnshiftedMesh

\* C14: an input file is in the folder only if the collision check, the
\* reserved-keyword check, the kind, XC, valence, orbital-configuration and
\* k-point checks and the schema validation all passed, and only once they
\* have run; a call that raised has written no file and returned no CalcInfo.
C14_FileWrittenOnlyAfterChecks ==
    /\ folder # <<>> => (AllChecksPass /\ pc = "returned")
    /\ pc \in {"uppercase_dict_keys", "_check_reserved_keywords", "_generate_input_parameters",
               "lowercase_dict_values", "_validate_inputs", "write_input_file", "folder_open", "raised"}
          => (folder = <<>> /\ ~calcinfo.returned)

\* C14 witness: a call that raised in the schema validation, the last of the
\* checks, with nothing written
C14_Witness ==
    /\ pc = "raised"
    /\ exc.type = "ValidationError"
    /\ folder = <<>>
    /\ ~calcinfo.returned

-----------------------------------------------------------------------------
(* parsers/openmx.py: OpenmxParser.parse as a state machine *)

\* ExitCode(status, message); the exit codes OpenmxCalculation.define declares
ExitCode(status, label) == [status |-> status, label |-> label]

ERROR_NO_RETRIEVED_TEMPORARY_FOLDER == ExitCode(301, "ERROR_NO_RETRIEVED_TEMPORARY_FOLDER")

ERROR_OUTPUT_STDOUT_MISSING == ExitCode(302, "ERROR_OUTPUT_STDOUT_MISSING")

\* an unreadable stdout file reported with the code of a missing one
ERROR_OUTPUT_STDOUT_READ_as_missing == ExitCode(302, "ERROR_OUTPUT_STDOUT_MISSING")
ERROR_OUTPUT_STDOUT_READ == ExitCode(310, "ERROR_OUTPUT_STDOUT_READ")

ERROR_OUTPUT_STDOUT_PARSE == ExitCode(311, "ERROR_OUTPUT_STDOUT_PARSE")

ERROR_OUTPUT_STDOUT_INCOMPLETE == ExitCode(312, "ERROR_OUTPUT_STDOUT_INCOMPLETE")

\* parse has not returned
NoExitCode == ExitCode(0 - 1, "none")

\* the report of a run on `structure` that printed the energy blocks
\* `energy_blocks` and the final-coordinates blocks `xyz_blocks`
Report(structure, energy_blocks, xyz_blocks) ==
    BannerLines \o energy_blocks \o EigenvaluesBlock \o DipoleBlock
        \o CellBlock(structure.cell, 250) \o xyz_blocks \o FracBlock(structure) \o TimeBlock

AllEnergies == Range(dict_keys(ENERGY_NAME_MAPPING))

\* a run of one step
OneStepReport(structure) ==
    Report(structure, EnergyBlock(1, AllEnergies), XyzBlock(structure, 100))

\* the reports the parser may be given for a run on `structure`: one step;
\* two steps; two steps, the second without the enthalpy terms; one step
\* without the enthalpy terms; and the one-step report cut after any line
Reports(structure) ==
    { OneStepReport(structure),
      Report(structure, EnergyBlock(1, AllEnergies) \o EnergyBlock(2, AllEnergies),
             XyzBlock(structure, 100) \o XyzBlock(structure, 200)),
      Report(structure, EnergyBlock(1, AllEnergies) \o EnergyBlock(2, AllEnergies \ {"UpV.", "Enpy."}),
             XyzBlock(structure, 100) \o XyzBlock(structure, 200)),
      Report(structure, EnergyBlock(1, AllEnergies \ {"UpV.", "Enpy."}), XyzBlock(structure, 100)) }
    \cup {SubSeq(OneStepReport(structure), 1, n) : n \in 0..(Len(OneStepReport(structure)) - 1)}

\* the retrieved folder: not there; without the stdout file; with a stdout
\* file that cannot be opened or read; with a report
RetrievedFolders(structure) ==
    { [exists |-> FALSE, listed |-> FALSE, open |-> "ok", content |-> <<>>],
      [exists |-> TRUE, listed |-> FALSE, open |-> "ok", content |-> <<>>],
      [exists |-> TRUE, listed |-> TRUE, open |-> "FileNotFoundError", content |-> <<>>],
      [exists |-> TRUE, listed |-> TRUE, open |-> "OSError", content |-> <<>>] }
    \cup {[exists |-> TRUE, listed |-> TRUE, open |-> "ok", content |-> report] : report \in Reports(structure)}

\* the values of MD_TYPE a caller may write
MdTypeValues == {str_nomd, str_NOMD, str_opt, str_Opt, str_optc1, str_OptC1}

\* the parameters of the calculation node, as the caller wrote them
ParserDicts ==
    {<<>>, <<[k |-> key_md_type, v |-> VStr(str_OptC1)]>>}
    \cup {<<[k |-> key_MD_TYPE, v |-> VStr(value)]>> : value \in MdTypeValues}

\* the inputs of the calculation node the parser is called for
ParserInputs ==
    { [ structure |-> structure, kpoints |-> [has_mesh |-> TRUE, mesh |-> <<2, 2, 2>>, offset |-> <<0, 0, 0>>],
        parameters |-> d,
        pseudos |-> [kind \in Range(structure.kinds) |->
                        [xc_type |-> str_PBE, z_valence |-> 1, filename |-> kind \o ext_vps]],
        orbitals |-> [kind \in Range(structure.kinds) |->
                         [z_valence |-> 1, filename |-> kind \o <<"7", ".", "0">> \o ext_pao]],
        orbital_configurations |-> [kind \in Range(structure.kinds) |-> <<2, 1, 0, 0>>] ] :
      structure \in Structures, d \in ParserDicts }

InitParser ==
    /\ inputs \in ParserInputs
    /\ retrieved \in RetrievedFolders(inputs.structure)
    /\ pc = "parse"
    /\ parameters = <<>>
    /\ exc = NoExc
    /\ lines = <<>>
    /\ line_i = 0
    /\ md_type = <<>>
    /\ energies = <<>>
    /\ bands = NoLocals.bands
    /\ final_cell_vectors = NoLocals.final_cell_vectors
    /\ final_cart_coords = NoLocals.final_cart_coords
    /\ outputs = <<>>
    /\ exit_code = NoExitCode
    /\ ctx = <<>>
    /\ input_file_content = <<>>
    /\ folder = <<>>
    /\ calcinfo = NoCalcInfo
    /\ invocation = 1
    /\ previous = <<>>
    /\ dictionary = <<>>
    /\ probe = NoProbe

composer_only_vars == <<input_file_content, folder, calcinfo, invocation, previous, dictionary, probe, ctx>>

\* parse returns an exit code
Return(code) ==
    /\ pc' = "parsed"
    /\ exit_code' = code

\* the scan, or what follows it, raises
Except(e) ==
    /\ pc' = "excepted"
    /\ exc' = e

\* parse, lines 85-92: the retrieved folder and the MD type
Parse ==
    /\ pc = "parse"
    /\ IF ~retrieved.exists
       THEN Return(ERROR_NO_RETRIEVED_TEMPORARY_FOLDER) /\ UNCHANGED md_type
       ELSE /\ md_type' = dict_get_default(inputs.parameters, key_MD_TYPE, VStr(str_nomd)).val
            /\ pc' = "_parse_stdout"
            /\ UNCHANGED exit_code
    /\ UNCHANGED <<inputs, parameters, exc, retrieved, lines, line_i, energies, bands,
                   final_cell_vectors, final_cart_coords, outputs>>
    /\ UNCHANGED composer_only_vars

\* _parse_stdout, lines 116-131: the stdout file is read
ReadStdout ==
    /\ pc = "_parse_stdout"
    /\ IF ~retrieved.listed \/ retrieved.open = "FileNotFoundError"
       THEN Return(ERROR_OUTPUT_STDOUT_MISSING) /\ UNCHANGED <<lines, line_i, parameters, energies>>
       ELSE IF retrieved.open = "OSError"
       THEN Return(ERROR_OUTPUT_STDOUT_READ) /\ UNCHANGED <<lines, line_i, parameters, energies>>
       ELSE /\ lines' = retrieved.content
            /\ parameters' = NoLocals.parameters
            /\ energies' = NoLocals.energies
            /\ line_i' = 1
            /\ pc' = "scan"
            /\ UNCHANGED exit_code
    /\ UNCHANGED <<inputs, exc, retrieved, md_type, bands, final_cell_vectors, final_cart_coords, outputs>>
    /\ UNCHANGED composer_only_vars

\* one pass of `for line_i, line in enumerate(lines)`, lines 133-361
ScanLine ==
    /\ pc = "scan"
    /\ line_i <= Len(lines)
    /\ LET st == scan_line([parameters |-> parameters, energies |-> energies, bands |-> bands,
                            final_cell_vectors |-> final_cell_vectors,
                            final_cart_coords |-> final_cart_coords, exc |-> NoExc], lines, line_i)
       IN  IF st.exc # NoExc
           THEN /\ Except(st.exc)
                /\ UNCHANGED <<parameters, energies, bands, final_cell_vectors, final_cart_coords, line_i>>
           ELSE /\ parameters' = st.parameters
                /\ energies' = st.energies
                /\ bands' = st.bands
                /\ final_cell_vectors' = st.final_cell_vectors
                /\ final_cart_coords' = st.final_cart_coords
                /\ line_i' = line_i + 1
                /\ UNCHANGED <<pc, exc>>
    /\ UNCHANGED <<inputs, retrieved, lines, md_type, outputs, exit_code>>
    /\ UNCHANGED composer_only_vars

\* lines 363-372: the output parameters are attached
OutputParameters ==
    /\ pc = "scan"
    /\ line_i > Len(lines)
    /\ LET r == output_parameters_of([parameters |-> parameters, energies |-> energies, bands |-> bands])
       IN  IF r.exc # NoExc
           THEN Except(r.exc) /\ UNCHANGED <<parameters, outputs>>
           ELSE /\ parameters' = r.value
                /\ outputs' = Append(outputs, [k |-> "output_parameters", v |-> r.value])
                /\ pc' = "final_structure"
                /\ UNCHANGED exc
    /\ UNCHANGED <<inputs, retrieved, lines, line_i, md_type, energies, bands, final_cell_vectors,
                   final_cart_coords, exit_code>>
    /\ UNCHANGED composer_only_vars

\* lines 374-390: the final structure is attached and ExitCode(0) returned
OutputStructure ==
    /\ pc = "final_structure"
    /\ IF md_type # str_nomd
       THEN LET r == output_structure_of(md_type, inputs.structure,
                         [final_cell_vectors |-> final_cell_vectors, final_cart_coords |-> final_cart_coords])
            IN  IF r.exc # NoExc
                THEN Except(r.exc) /\ UNCHANGED <<outputs, exit_code>>
                ELSE /\ outputs' = Append(outputs, [k |-> "output_structure", v |-> r.value])
                     /\ Return(ExitCode(0, "none"))
                     /\ UNCHANGED exc
       ELSE Return(ExitCode(0, "none")) /\ UNCHANGED <<outputs, exc>>
    /\ UNCHANGED <<inputs, parameters, retrieved, lines, line_i, md_type, energies, bands,
                   final_cell_vectors, final_cart_coords>>
    /\ UNCHANGED composer_only_vars

NextParser ==
    \/ Parse
    \/ ReadStdout
    \/ ScanLine
    \/ OutputParameters
    \/ OutputStructure

SpecParser == InitParser /\ [][NextParser]_vars

-----------------------------------------------------------------------------
(* Claims on OpenmxParser *)

\* the parser was given a stdout file it could read
Readable == retrieved.exists /\ retrieved.listed /\ retrieved.open = "ok"

\* the line numbers of the report that hold a marker
MarkerLines(marker) == {i \in 1..Len(retrieved.content) : marker \in retrieved.content[i].has}

\* the greatest of a set of line numbers
Last(S) == CHOOSE i \in S : \A j \in S : j <= i

\* the lines of the energy block that begins at the heading on line h: up
\* to the next 'Note:'
EnergyLinesAt(h) ==
    {i \in (h + 1)..Len(retrieved.content) :
        \A j \in (h + 1)..i : "Note:" \notin retrieved.content[j].has}

\* the output parameters attached, if any
OutputParametersNode == {outputs[i].v : i \in {n \in 1..Len(outputs) : outputs[n].k = "output_parameters"}}

\* the output structures attached, if any
OutputStructureNode == {outputs[i].v : i \in {n \in 1..Len(outputs) : outputs[n].k = "output_structure"}}

\* C15: when the report has several energy blocks and output_parameters is
\* attached, every energy scalar is the value the last block prints for that
\* component, in eV, and a component the last block does not print has no
\* value taken from an earlier block.
C15_EnergiesFromLastBlock ==
    (Readable /\ Cardinality(MarkerLines(MARK_ENERGY)) > 1)
    => \A p \in OutputParametersNode :
          \A n \in 1..Len(ENERGY_NAME_MAPPING) :
              LET printed == {i \in EnergyLinesAt(Last(MarkerLines(MARK_ENERGY))) :
                                 ENERGY_NAME_MAPPING[n].k \in retrieved.content[i].has}
              IN  IF printed # {}
                  THEN \E i \in printed :
                          dict_get(p, ENERGY_NAME_MAPPING[n].v) = retrieved.content[i].f[1] * Ha_to_eV
                  ELSE ~dict_has(p, ENERGY_NAME_MAPPING[n].v)

\* C16: for a readable report without the 'Computational Time' marker, parse
\* does not return ExitCode 0.
C16_NoTimeMarkerIsNotSuccess ==
    (pc = "parsed" /\ Readable /\ MarkerLines(MARK_TIME) = {})
    => exit_code.status # 0

\* C17: when the stdout file is not listed in the retrieved folder, or
\* opening it raises FileNotFoundError, parse returns
\* ERROR_OUTPUT_STDOUT_MISSING (302); when opening or reading it raises
\* another OSError, parse returns ERROR_OUTPUT_STDOUT_READ (310); in both
\* cases no output node is attached.
C17_MissingAndUnreadableAreDistinct ==
    (pc \in {"scan", "final_structure", "parsed", "excepted"} /\ retrieved.exists)
    => /\ (~retrieved.listed \/ retrieved.open = "FileNotFoundError")
             => (pc = "parsed" /\ exit_code.status = 302
                 /\ exit_code.label = "ERROR_OUTPUT_STDOUT_MISSING" /\ outputs = <<>>)
       /\ (retrieved.listed /\ retrieved.open = "OSError")
             => (pc = "parsed" /\ exit_code.status = 310
                 /\ exit_code.label = "ERROR_OUTPUT_STDOUT_READ" /\ outputs = <<>>)

\* C17 witness: parse returned for a stdout file that could not be read
C17_Witness ==
    /\ pc = "parsed"
    /\ retrieved.listed
    /\ retrieved.open = "OSError"
    /\ exit_code.status = 310

\* the markers of the blocks that end at a sentinel, with the number of
\* lines from the marker to the first line of the block
Sentinels ==
    { [marker |-> MARK_ENERGY, skip |-> 3, sentinel |-> "Note:"],
      [marker |-> MARK_EIGENVALUES, skip |-> 4, sentinel |-> "*"],
      [marker |-> MARK_DIPOLE, skip |-> 4, sentinel |-> "*"],
      [marker |-> MARK_CELL, skip |-> 4, sentinel |-> "*"],
      [marker |-> MARK_XYZ, skip |-> 6, sentinel |-> "coordinates.forces"],
      [marker |-> MARK_FRAC, skip |-> 4, sentinel |-> "*"] }

\* a marker of the report is followed by no sentinel line for its block
SentinelMissing ==
    \E b \in Sentinels : \E h \in MarkerLines(b.marker) :
        \A j \in (h + b.skip)..Len(retrieved.content) : b.sentinel \notin retrieved.content[j].has

\* C18: for a readable report in which a marker is found and the sentinel of
\* its block is not, parse returns ERROR_OUTPUT_STDOUT_INCOMPLETE; it does
\* not raise and does not return another exit code.
C18_MissingSentinelIsIncomplete ==
    (pc \in {"final_structure", "parsed", "excepted"} /\ Readable /\ SentinelMissing)
    => (pc = "parsed" /\ exit_code = ERROR_OUTPUT_STDOUT_INCOMPLETE)

\* the MD type the calculation ran with: the caller's MD_TYPE entry, the key
\* upper-cased and the value lower-cased as prepare_for_submission does
RunMdType ==
    LET given == {i \in 1..Len(inputs.parameters) : str_upper(inputs.parameters[i].k) = KW_MD_TYPE}
    IN  IF given = {} THEN str_nomd ELSE str_lower(inputs.parameters[CHOOSE i \in given : TRUE].v.val)

\* the atom lines of the last final-coordinates block of the report
LastXyzAtoms ==
    LET h == Last(MarkerLines(MARK_XYZ))
        body == {i \in (h + 6)..Len(retrieved.content) :
                    \A j \in (h + 6)..i : "coordinates.forces" \notin retrieved.content[j].has}
    IN  [n \in 1..Cardinality(body) |-> retrieved.content[h + 5 + n]]

\* the cell vectors of the last cell block of the report
LastCell ==
    LET h == Last(MarkerLines(MARK_CELL))
    IN  [n \in 1..3 |-> SubSeq(retrieved.content[h + 3 + n].f, 1, 3)]

\* C19: when parse returns ExitCode 0 for a run that was a relaxation and
\* whose report holds the final cell and coordinates, an output structure is
\* attached that has the atoms of the input structure,
\* in the same order and with the same kind names, at the positions of the
\* last final-coordinates block; its cell is the final cell of the report
\* for the cell-varying MD types and the input cell for the other types.
C19_OutputStructureOfRelaxation ==
    (/\ pc = "parsed" /\ exit_code.status = 0 /\ RunMdType # str_nomd
     /\ MarkerLines(MARK_XYZ) # {} /\ MarkerLines(MARK_CELL) # {})
    => /\ Cardinality(OutputStructureNode) = 1
       /\ \A final \in OutputStructureNode :
             /\ Len(final.sites) = Len(inputs.structure.sites)
             /\ \A n \in 1..Len(final.sites) :
                   /\ final.sites[n].kind_name = inputs.structure.sites[n].kind_name
                   /\ final.sites[n].position = SubSeq(LastXyzAtoms[n].f, 2, 4)
             /\ final.cell = IF RunMdType \in CELL_VARYING_MD_TYPES THEN LastCell ELSE inputs.structure.cell
-----------------------------------------------------------------------------
(* calculations/dosmain.py: DosmainCalculation.prepare_for_submission *)

\* Largest atom index in pdos_atom_indices.
MaxAtomIndex == 2

Dosmain_INPUT_FILE == "aiida.in"

Dosmain_OUTPUT_FILE == "aiida.out"

\* self._validate_inputs(): the exception it raises, or NoExc
Dosmain_validate_inputs(self) ==
    LET required_inputs_pdos == <<"pdos_atom_indices", "openmx_input_structure", "openmx_orbital_configurations">>
        missing == {i \in 1..Len(required_inputs_pdos) : required_inputs_pdos[i] \notin self.provided}
    IN  IF self.dos_method \notin {str_tetrahedron, str_gaussian}
        THEN Raise("InputValidationError", "dos_method", self.dos_method, <<>>)
        ELSE IF self.dos_method = str_gaussian /\ "gaussian_broadening" \notin self.provided
        THEN Raise("InputValidationError", "gaussian_broadening", <<>>, <<>>)
        ELSE IF self.dos_type = str_pdos /\ missing # {}
        THEN Raise("InputValidationError", "required_input",
                   required_inputs_pdos[CHOOSE i \in missing : \A j \in missing : i <= j], <<>>)
        ELSE NoExc

\* a retrieve list that names the tetrahedron file whatever the method
Dosmain_generate_retrieve_list_one_name(self) ==
    IF self.dos_type = str_dos
    THEN Ok(<<"aiida.DOS.Tetrahedron">>)
    ELSE Fail(Raise("FeatureNotAvailable", "dos_type", self.dos_type, <<>>))

\* self._generate_retrieve_list()
Dosmain_generate_retrieve_list(self) ==
    IF self.dos_type = str_dos
    THEN IF self.dos_method = str_tetrahedron
         THEN Ok(<<"aiida.DOS.Tetrahedron">>)
         ELSE Ok(<<"aiida.DOS.Gaussian">>)
    ELSE Fail(Raise("FeatureNotAvailable", "dos_type", self.dos_type, <<>>))

\* self._write_input_file()
Dosmain_write_input_file(self) ==
    LET method == IF self.dos_method = str_tetrahedron THEN <<"1", "\n">> ELSE <<>>
        gaussian == IF self.dos_method = str_gaussian
                    THEN <<"2", "\n">> \o format_012f(self.gaussian_broadening) \o <<"\n">>
                    ELSE <<>>
        dos == IF self.dos_type = str_dos THEN <<"1", "\n">> ELSE <<>>
        atom_indices == dict_get(self.pdos_atom_indices, "atom_indices")
        pdos == IF self.dos_type = str_pdos
                THEN <<"2", "\n">>
                        \o join(<<" ">>, [i \in 1..Len(atom_indices) |-> format_d(atom_indices[i])])
                        \o <<"\n">>
                ELSE <<>>
    IN  IF self.dos_method = str_gaussian /\ "gaussian_broadening" \notin self.provided
        THEN Fail(Raise("AttributeError", "gaussian_broadening", <<>>, <<>>))
        ELSE IF self.dos_type = str_pdos /\ "pdos_atom_indices" \notin self.provided
        THEN Fail(Raise("AttributeError", "pdos_atom_indices", <<>>, <<>>))
        ELSE IF self.dos_type = str_pdos /\ ~dict_has(self.pdos_atom_indices, "atom_indices")
        THEN Fail(Raise("KeyError", "atom_indices", <<>>, <<>>))
        ELSE Ok(method \o gaussian \o dos \o pdos)

\* the arrays a pdos_atom_indices node may hold
AtomIndexArrays ==
    {<<>>} \cup {<<[k |-> name, v |-> indices]>> :
                    name \in {"atom_indices", "indices"},
                    indices \in {<<1>>, <<MaxAtomIndex>>, <<1, MaxAtomIndex>>}}

\* the optional inputs of the calculation
DosmainOptionalInputs ==
    {"gaussian_broadening", "pdos_atom_indices", "openmx_input_structure", "openmx_orbital_configurations"}

\* the inputs of a DosmainCalculation; an input that was not provided has
\* the empty value
DosmainInputs ==
    { i \in [ dos_type : {str_dos, str_pdos, str_DOS},
              dos_method : {str_tetrahedron, str_gaussian, str_Gaussian},
              provided : SUBSET DosmainOptionalInputs,
              gaussian_broadening : {0, 50, 1500},
              pdos_atom_indices : AtomIndexArrays ] :
        /\ "gaussian_broadening" \notin i.provided => i.gaussian_broadening = 0
        /\ "pdos_atom_indices" \notin i.provided => i.pdos_atom_indices = <<>> }

InitDosmain ==
    /\ inputs \in DosmainInputs
    /\ pc = "Dosmain_validate_inputs"
    /\ parameters = <<>>
    /\ exc = NoExc
    /\ input_file_content = <<>>
    /\ folder = <<>>
    /\ calcinfo = NoCalcInfo
    /\ invocation = 1
    /\ previous = <<>>
    /\ dictionary = <<>>
    /\ probe = NoProbe
    /\ ParserIdle

dosmain_unchanged == <<parameters, invocation, previous, dictionary, probe, parser_vars>>

\* self._validate_inputs()
DosmainValidateInputs ==
    /\ pc = "Dosmain_validate_inputs"
    /\ LET e == Dosmain_validate_inputs(inputs)
       IN  IF e # NoExc THEN Raised(e) ELSE pc' = "Dosmain_generate_retrieve_list" /\ UNCHANGED exc
    /\ UNCHANGED <<inputs, input_file_content, folder, calcinfo>>
    /\ UNCHANGED dosmain_unchanged

\* retrieve_list = self._generate_retrieve_list()
DosmainGenerateRetrieveList ==
    /\ pc = "Dosmain_generate_retrieve_list"
    /\ LET r == Dosmain_generate_retrieve_list(inputs)
       IN  IF r.exc # NoExc
           THEN Raised(r.exc) /\ UNCHANGED calcinfo
           ELSE /\ pc' = "Dosmain_write_input_file"
                /\ calcinfo' = [calcinfo EXCEPT !.retrieve_list = r.value]
                /\ UNCHANGED exc
    /\ UNCHANGED <<inputs, input_file_content, folder>>
    /\ UNCHANGED dosmain_unchanged

\* input_file_content = self._write_input_file()
DosmainWriteInputFile ==
    /\ pc = "Dosmain_write_input_file"
    /\ LET r == Dosmain_write_input_file(inputs)
       IN  IF r.exc # NoExc
           THEN Raised(r.exc) /\ UNCHANGED input_file_content
           ELSE pc' = "Dosmain_folder_open" /\ input_file_content' = r.value /\ UNCHANGED exc
    /\ UNCHANGED <<inputs, folder, calcinfo>>
    /\ UNCHANGED dosmain_unchanged

\* the rest of prepare_for_submission: the input file written to the
\* folder, the CalcInfo returned
DosmainWriteFolderAndReturn ==
    /\ pc = "Dosmain_folder_open"
    /\ folder' = Append(folder, [name |-> Dosmain_INPUT_FILE, content |-> input_file_content])
    /\ calcinfo' = [returned |-> TRUE, retrieve_list |-> Append(calcinfo.retrieve_list, Dosmain_OUTPUT_FILE)]
    /\ pc' = "returned"
    /\ UNCHANGED <<inputs, exc, input_file_content>>
    /\ UNCHANGED dosmain_unchanged

NextDosmain ==
    \/ DosmainValidateInputs
    \/ DosmainGenerateRetrieveList
    \/ DosmainWriteInputFile
    \/ DosmainWriteFolderAndReturn

SpecDosmain == InitDosmain /\ [][NextDosmain]_vars

-----------------------------------------------------------------------------
(* Claims on DosmainCalculation *)

\* _validate_inputs has returned without raising for the inputs
DosmainValidated ==
    pc \in {"Dosmain_generate_retrieve_list", "Dosmain_write_input_file", "Dosmain_folder_open", "returned"}
    \/ (pc = "raised" /\ exc.type # "InputValidationError")

\* the number of lines of a text whose lines all end with a newline
CountLines(text) == Cardinality({i \in 1..Len(text) : text[i] = "\n"})

\* C20: for inputs that passed _validate_inputs, _write_input_file answers
\* '1\n1\n' for tetrahedron and dos, '2\n', the broadening with 12 decimals
\* and '1\n' for gaussian and dos, and in every case a text of at least two
\* lines: a method line first and a line for the kind of spectrum.
C20_ControlFileHasMethodAndQuantity ==
    DosmainValidated
    => LET r == Dosmain_write_input_file(inputs)
       IN  /\ r.exc = NoExc
           /\ (inputs.dos_method = str_tetrahedron /\ inputs.dos_type = str_dos)
                 => r.value = <<"1", "\n", "1", "\n">>
           /\ (inputs.dos_method = str_gaussian /\ inputs.dos_type = str_dos)
                 => r.value = <<"2", "\n">> \o format_012f(inputs.gaussian_broadening) \o <<"\n", "1", "\n">>
           /\ SubSeq(r.value, 1, 2) \in {<<"1", "\n">>, <<"2", "\n">>}
           /\ CountLines(r.value) >= 2
-----------------------------------------------------------------------------
(* Claims on OpenmxParser and OpenmxCalculation together *)

\* the parameters prepare_for_submission works with for the caller's
\* dictionary: keys in upper case, string values in lower case
CalculationParameters == lowercase_dict_values(uppercase_dict_keys(inputs.parameters).value)

\* the MD type the calculation wrote to the input file
CalculationMdType == dict_get_default(CalculationParameters, KW_MD_TYPE, VStr(str_nomd)).val

\* C28: the parser takes the run for a relaxation (md_type is not 'nomd')
\* exactly when the calculation did (MD_TYPE, upper-cased key and lower-cased
\* value, is not 'nomd', the condition under which it retrieves the .md
\* files), and takes the cell-varying branch exactly for the cell-varying
\* MD types, whatever letter case the caller used.
C28_ParserAgreesWithCalculation ==
    (pc \in {"_parse_stdout", "scan", "final_structure", "parsed", "excepted"} /\ retrieved.exists)
    => /\ (md_type # str_nomd) <=> (CalculationMdType # str_nomd)
       /\ (md_type \in CELL_VARYING_MD_TYPES) <=> (CalculationMdType \in CELL_VARYING_MD_TYPES)

\* the lines of the timing block that follow the elapsed time
TimingLines ==
    LET h == Last(MarkerLines(MARK_TIME))
    IN  {i \in (h + 5)..Len(retrieved.content) :
            \E n \in 1..Len(TIMING_NAME_MAPPING) : TIMING_NAME_MAPPING[n].k \in retrieved.content[i].has}

\* C29: when the report has the 'Computational Time (second)' block, the
\* output parameters hold elapsed_time with its units 's' and, for every
\* later line of the block labelled with a key of TIMING_NAME_MAPPING, the
\* min_id, min_time, max_id and max_time of the line under the mapped name,
\* with '<name>_units' = 's'.
C29_TimingsInOutputParameters ==
    (Readable /\ MarkerLines(MARK_TIME) # {})
    => \A p \in OutputParametersNode :
          /\ dict_has(p, "elapsed_time")
          /\ dict_get(p, "elapsed_time") = retrieved.content[Last(MarkerLines(MARK_TIME)) + 4].f[1]
          /\ dict_has(p, "elapsed_time_units")
          /\ dict_get(p, "elapsed_time_units") = "s"
          /\ \A i \in TimingLines : \A n \in 1..Len(TIMING_NAME_MAPPING) :
                TIMING_NAME_MAPPING[n].k \in retrieved.content[i].has
                => /\ dict_has(p, TIMING_NAME_MAPPING[n].v)
                   /\ dict_get(p, TIMING_NAME_MAPPING[n].v)
                         = [min_id |-> retrieved.content[i].f[1], min_time |-> retrieved.content[i].f[2],
                            max_id |-> retrieved.content[i].f[3], max_time |-> retrieved.content[i].f[4]]
                   /\ dict_has(p, TIMING_NAME_MAPPING[n].v \o "_units")
                   /\ dict_get(p, TIMING_NAME_MAPPING[n].v \o "_units") = "s"
-----------------------------------------------------------------------------
(* parsers/dosmain.py: DosmainParser.parse *)

\* the exit codes DosmainCalculation.define declares, by label
DosmainExitCodes ==
    << [k |-> "ERROR_NO_RETRIEVED_TEMPORARY_FOLDER", v |-> 301],
       [k |-> "ERROR_OUTPUT_STDOUT_MISSING", v |-> 302],
       [k |-> "ERROR_OUTPUT_DOS_MISSING", v |-> 303],
       [k |-> "ERROR_OUTPUT_STDOUT_READ", v |-> 310],
       [k |-> "ERROR_OUTPUT_STDOUT_PARSE", v |-> 311],
       [k |-> "ERROR_OUTPUT_STDOUT_INCOMPLETE", v |-> 312],
       [k |-> "ERROR_OUTPUT_DOS_READ", v |-> 313],
       [k |-> "ERROR_OUTPUT_DOS_PARSE", v |-> 314],
       [k |-> "ERRO_OUTPUT_DOS_INCOMPLETE", v |-> 315],
       [k |-> "ERROR_UNEXPECTED_PARSER_EXCEPTION", v |-> 350] >>

\* self.exit_codes.<label>: the declared exit code, or AttributeError for a
\* label that was not declared
Dosmain_exit_codes(label) ==
    IF dict_has(DosmainExitCodes, label)
    THEN Ok(ExitCode(dict_get(DosmainExitCodes, label), label))
    ELSE Fail(Raise("AttributeError", label, <<>>, <<>>))

\* the file _parse_dos looks for
parse_dos_filename(self) ==
    IF self.dos_method = str_tetrahedron THEN "aiida.DOS.Tetrahedron" ELSE "aiida.DOS.Gaussian"

\* _parse_dos: an exit code, an output node, or an exception
Dosmain_parse_dos(self, folder_retrieved) ==
    LET filename == parse_dos_filename(self)
        missing == Dosmain_exit_codes("ERROR_DOS_OUTPUT_MISSING")
        unreadable == Dosmain_exit_codes("ERROR_DOS_OUTPUT_READ")
        none == [exc |-> NoExc, code |-> NoExitCode, out |-> <<>>]
    IN  IF filename \notin folder_retrieved.names \/ folder_retrieved.open = "FileNotFoundError"
        THEN [none EXCEPT !.exc = missing.exc,
                          !.code = IF missing.exc = NoExc THEN missing.value ELSE NoExitCode]
        ELSE IF folder_retrieved.open = "OSError"
        THEN [none EXCEPT !.exc = unreadable.exc,
                          !.code = IF unreadable.exc = NoExc THEN unreadable.value ELSE NoExitCode]
        ELSE IF folder_retrieved.loadtxt = "ValueError"
        THEN [none EXCEPT !.exc = Raise("ValueError", "loadtxt", <<>>, <<>>)]
        ELSE [none EXCEPT !.code = ExitCode(0, "none"),
                          !.out = <<[k |-> "output_dos", v |-> folder_retrieved.dos]>>]

\* the retrieved folder of a DosMain job: not there, or holding some of the
\* result files, which may not open, or not hold a table of numbers
DosmainRetrievedFolders ==
    {[exists |-> FALSE, names |-> {}, open |-> "ok", loadtxt |-> "ok", dos |-> <<>>]}
    \cup { [exists |-> TRUE, names |-> names \cup {Dosmain_OUTPUT_FILE}, open |-> open, loadtxt |-> loadtxt,
            dos |-> <<<<0, 1000, 0>>, <<1000, 2000, 1500>>>>] :
           names \in SUBSET {"aiida.DOS.Tetrahedron", "aiida.DOS.Gaussian"},
           open \in {"ok", "FileNotFoundError", "OSError"},
           loadtxt \in {"ok", "ValueError"} }

\* the parser is called for a calculation node whose inputs passed
\* _validate_inputs
InitDosmainParser ==
    /\ inputs \in {i \in DosmainInputs : Dosmain_validate_inputs(i) = NoExc}
    /\ retrieved \in DosmainRetrievedFolders
    /\ pc = "DosmainParser.parse"
    /\ exc = NoExc
    /\ outputs = <<>>
    /\ exit_code = NoExitCode
    /\ ctx = <<>>
    /\ parameters = <<>>
    /\ lines = <<>>
    /\ line_i = 0
    /\ md_type = <<>>
    /\ energies = <<>>
    /\ bands = <<>>
    /\ final_cell_vectors = <<>>
    /\ final_cart_coords = <<>>
    /\ input_file_content = <<>>
    /\ folder = <<>>
    /\ calcinfo = NoCalcInfo
    /\ invocation = 1
    /\ previous = <<>>
    /\ dictionary = <<>>
    /\ probe = NoProbe

dosmain_parser_unchanged ==
    <<inputs, retrieved, parameters, lines, line_i, md_type, energies, bands, final_cell_vectors,
      final_cart_coords, composer_only_vars>>

\* parse, lines 20-28
DosmainParse ==
    /\ pc = "DosmainParser.parse"
    /\ IF ~retrieved.exists
       THEN LET code == Dosmain_exit_codes("ERROR_NO_RETRIEVED_TEMPORARY_FOLDER")
            IN  IF code.exc # NoExc
                THEN Except(code.exc) /\ UNCHANGED exit_code
                ELSE Return(code.value) /\ UNCHANGED exc
       ELSE /\ pc' = IF inputs.dos_type = str_dos THEN "_parse_dos" ELSE "_parse_pdos"
            /\ UNCHANGED <<exc, exit_code>>
    /\ UNCHANGED outputs
    /\ UNCHANGED dosmain_parser_unchanged

\* exit_code = self._parse_dos(); return exit_code
DosmainParseDos ==
    /\ pc = "_parse_dos"
    /\ LET r == Dosmain_parse_dos(inputs, retrieved)
       IN  IF r.exc # NoExc
           THEN Except(r.exc) /\ UNCHANGED <<exit_code, outputs>>
           ELSE Return(r.code) /\ outputs' = outputs \o r.out /\ UNCHANGED exc
    /\ UNCHANGED dosmain_parser_unchanged

\* exit_code = self._parse_pdos(); return exit_code
DosmainParsePdos ==
    /\ pc = "_parse_pdos"
    /\ Return(ExitCode(0, "none"))
    /\ UNCHANGED <<exc, outputs>>
    /\ UNCHANGED dosmain_parser_unchanged

NextDosmainParser ==
    \/ DosmainParse
    \/ DosmainParseDos
    \/ DosmainParsePdos

SpecDosmainParser == InitDosmainParser /\ [][NextDosmainParser]_vars
-----------------------------------------------------------------------------
(* Claims on DosmainCalculation and DosmainParser *)

\* C21: for dos_type 'dos' the retrieve list prepare_for_submission returns
\* is the result file followed by 'aiida.out', the result file being
\* 'aiida.DOS.Tetrahedron' for tetrahedron and 'aiida.DOS.Gaussian' for
\* gaussian, and it is the file _parse_dos looks for with the same method.
C21_RetrieveListNamesTheResultFile ==
    (pc = "returned" /\ inputs.dos_type = str_dos)
    => /\ calcinfo.returned
       /\ calcinfo.retrieve_list =
             << (IF inputs.dos_method = str_tetrahedron THEN "aiida.DOS.Tetrahedron" ELSE "aiida.DOS.Gaussian"),
                "aiida.out" >>
       /\ calcinfo.retrieve_list[1] = parse_dos_filename(inputs)

\* C21 witness: prepare_for_submission returned for the gaussian method
C21_Witness ==
    /\ pc = "returned"
    /\ inputs.dos_type = str_dos
    /\ inputs.dos_method = str_gaussian
    /\ Len(calcinfo.retrieve_list) = 2

\* C22, the calculation: with dos_type 'pdos' prepare_for_submission raises
\* and writes no input file
C22_PdosCalculationWritesNothing ==
    inputs.dos_type = str_pdos
    => /\ folder = <<>>
       /\ pc \in {"Dosmain_validate_inputs", "Dosmain_generate_retrieve_list", "raised"}
       /\ pc = "raised" => exc.type \in {"FeatureNotAvailable", "InputValidationError"}

\* C22: DosmainParser.parse does not return ExitCode 0 for a calculation
\* whose dos_type is not 'dos'.
C22_PdosParserDoesNotSucceed ==
    (pc = "parsed" /\ inputs.dos_type # str_dos) => exit_code.status # 0

\* C23: _validate_inputs raises InputValidationError for a dos_method other
\* than 'tetrahedron' and 'gaussian', for 'gaussian' without
\* gaussian_broadening, for 'pdos' without one of its three inputs, and for
\* a dos_type other than 'dos' and 'pdos'.
C23_ValidateInputsRejects ==
    (/\ pc # "Dosmain_validate_inputs"
     /\ \/ inputs.dos_method \notin {str_tetrahedron, str_gaussian}
        \/ inputs.dos_method = str_gaussian /\ "gaussian_broadening" \notin inputs.provided
        \/ /\ inputs.dos_type = str_pdos
           /\ {"pdos_atom_indices", "openmx_input_structure", "openmx_orbital_configurations"}
                 \ inputs.provided # {}
        \/ inputs.dos_type \notin {str_dos, str_pdos})
    => (pc = "raised" /\ exc.type = "InputValidationError")

\* C24: when the result file is not in the retrieved folder parse returns
\* ERROR_OUTPUT_DOS_MISSING (303), when reading it raises OSError it returns
\* ERROR_OUTPUT_DOS_READ (313); the parser does not raise on these paths.
C24_MissingOrUnreadableDosFile ==
    (/\ pc \in {"parsed", "excepted"} /\ retrieved.exists /\ inputs.dos_type = str_dos)
    => /\ (parse_dos_filename(inputs) \notin retrieved.names \/ retrieved.open = "FileNotFoundError")
             => (pc = "parsed" /\ exit_code = ExitCode(303, "ERROR_OUTPUT_DOS_MISSING"))
       /\ (parse_dos_filename(inputs) \in retrieved.names /\ retrieved.open = "OSError")
             => (pc = "parsed" /\ exit_code = ExitCode(313, "ERROR_OUTPUT_DOS_READ"))
-----------------------------------------------------------------------------
(* workflows/dos.py: DosWorkChain *)

ERROR_DOS_FILEOUT_NOT_SPECIFIED == ExitCode(201, "ERROR_DOS_FILEOUT_NOT_SPECIFIED")

ERROR_SUBPROCESS_FAILED_OPENMX == ExitCode(401, "ERROR_SUBPROCESS_FAILED_OPENMX")

ERROR_SUBPROCESS_FAILED_DOSMAIN == ExitCode(402, "ERROR_SUBPROCESS_FAILED_DOSMAIN")

\* validate_inputs(inputs): the message it returns, or NoExitCode for None
validate_inputs(wc_inputs) ==
    IF key_DOS_FILEOUT \notin Range(dict_keys(wc_inputs.openmx.parameters))
    THEN ERROR_DOS_FILEOUT_NOT_SPECIFIED
    ELSE NoExitCode

\* a calculation that has not been submitted
NoCalculation == [submitted |-> FALSE]

\* the types OpenmxCalculation.define declares for the inputs and outputs
\* run_dosmain reads
OpenmxNodeTypes ==
    [structure |-> "StructureData", orbital_configurations |-> "ArrayData", remote_folder |-> "RemoteData"]

\* the types DosmainCalculation.define declares for the inputs run_dosmain
\* sets
DosmainDeclaredTypes ==
    [openmx_output_folder |-> "RemoteData", openmx_input_structure |-> "StructureData",
     openmx_orbital_configurations |-> "StructureData"]

\* how a submitted calculation may end: finished with exit status 0, finished
\* with another exit status, or excepted (no exit status)
CalculationEnds ==
    {[is_finished_ok |-> TRUE, exit_status |-> 0]}
    \cup {[is_finished_ok |-> FALSE, exit_status |-> s] : s \in {0 - 1, 302, 312}}

\* an inspect step that lets every calculation pass
inspect_passes(calculation, failure) == NoExitCode

\* inspect_openmx and inspect_dosmain: the exit code returned, or NoExitCode
inspect(calculation, failure) ==
    IF ~calculation.is_finished_ok THEN failure ELSE NoExitCode

\* the inputs of the `dosmain` namespace: those of DosmainCalculation
\* without the three that run_dosmain sets
DosmainNamespaces ==
    {i \in DosmainInputs : i.provided \subseteq {"gaussian_broadening"} /\ i.gaussian_broadening \in {0, 50}}

\* the parameters of the `openmx` namespace
WorkChainDicts ==
    { <<>>,
      <<[k |-> key_DOS_FILEOUT, v |-> VBool(TRUE)]>>,
      <<[k |-> key_DOS_FILEOUT, v |-> VBool(FALSE)]>>,
      <<[k |-> key_dos_fileout, v |-> VBool(TRUE)]>>,
      <<[k |-> key_MD_TYPE, v |-> VStr(str_opt)]>>,
      <<[k |-> key_MD_TYPE, v |-> VStr(str_opt)], [k |-> key_DOS_FILEOUT, v |-> VBool(TRUE)]>> }

InitDos ==
    /\ inputs \in [openmx : [parameters : WorkChainDicts], dosmain : DosmainNamespaces]
    /\ pc = "validate_inputs"
    /\ ctx = [openmx_calculation |-> NoCalculation, dosmain_calculation |-> NoCalculation]
    /\ outputs = <<>>
    /\ exit_code = NoExitCode
    /\ exc = NoExc
    /\ parameters = <<>>
    /\ retrieved = <<>>
    /\ lines = <<>>
    /\ line_i = 0
    /\ md_type = <<>>
    /\ energies = <<>>
    /\ bands = <<>>
    /\ final_cell_vectors = <<>>
    /\ final_cart_coords = <<>>
    /\ input_file_content = <<>>
    /\ folder = <<>>
    /\ calcinfo = NoCalcInfo
    /\ invocation = 1
    /\ previous = <<>>
    /\ dictionary = <<>>
    /\ probe = NoProbe

workchain_unchanged ==
    <<inputs, parameters, retrieved, lines, line_i, md_type, energies, bands, final_cell_vectors,
      final_cart_coords, input_file_content, folder, calcinfo, invocation, previous, dictionary, probe>>

\* the engine calls spec.inputs_validator when the work chain is created; a
\* message returned makes the creation fail
ValidateWorkChainInputs ==
    /\ pc = "validate_inputs"
    /\ LET message == validate_inputs(inputs)
       IN  IF message # NoExitCode
           THEN pc' = "rejected" /\ exc' = Raise("ValueError", message.label, <<>>, <<>>)
           ELSE pc' = "run_openmx" /\ UNCHANGED exc
    /\ UNCHANGED <<ctx, outputs, exit_code>>
    /\ UNCHANGED workchain_unchanged

\* run_openmx; the engine runs the next step when the calculation has ended
RunOpenmx ==
    /\ pc = "run_openmx"
    /\ \E end \in CalculationEnds :
          ctx' = [ctx EXCEPT !.openmx_calculation =
                     [submitted |-> TRUE, is_finished_ok |-> end.is_finished_ok, exit_status |-> end.exit_status,
                      inputs |-> [structure |-> OpenmxNodeTypes.structure,
                                  orbital_configurations |-> OpenmxNodeTypes.orbital_configurations],
                      outputs |-> [remote_folder |-> OpenmxNodeTypes.remote_folder,
                                   has_output |-> end.is_finished_ok]]]
    /\ pc' = "inspect_openmx"
    /\ UNCHANGED <<outputs, exit_code, exc>>
    /\ UNCHANGED workchain_unchanged

\* inspect_openmx; an exit code returned by a step ends the work chain
InspectOpenmx ==
    /\ pc = "inspect_openmx"
    /\ LET code == inspect(ctx.openmx_calculation, ERROR_SUBPROCESS_FAILED_OPENMX)
       IN  IF code # NoExitCode
           THEN pc' = "finished" /\ exit_code' = code
           ELSE pc' = "run_dosmain" /\ UNCHANGED exit_code
    /\ UNCHANGED <<ctx, outputs, exc>>
    /\ UNCHANGED workchain_unchanged

\* run_dosmain. Whether the engine accepts the inputs at self.submit is not
\* decided by this repository: both outcomes are kept when an input has not
\* the declared type. A calculation whose prepare_for_submission raises
\* does not finish ok.
RunDosmain ==
    /\ pc = "run_dosmain"
    /\ LET openmx_calculation == ctx.openmx_calculation
           dosmain_inputs ==
               [ namespace |-> [inputs.dosmain EXCEPT !.provided =
                                   @ \cup {"openmx_input_structure", "openmx_orbital_configurations"}],
                 openmx_output_folder |-> openmx_calculation.outputs.remote_folder,
                 openmx_input_structure |-> openmx_calculation.inputs.structure,
                 openmx_orbital_configurations |-> openmx_calculation.inputs.orbital_configurations ]
           well_typed == \A port \in DOMAIN DosmainDeclaredTypes : dosmain_inputs[port] = DosmainDeclaredTypes[port]
           prepares == /\ Dosmain_validate_inputs(dosmain_inputs.namespace) = NoExc
                       /\ Dosmain_generate_retrieve_list(dosmain_inputs.namespace).exc = NoExc
       IN  \/ /\ \E end \in CalculationEnds :
                    /\ end.is_finished_ok => prepares
                    /\ ctx' = [ctx EXCEPT !.dosmain_calculation =
                                  [submitted |-> TRUE, is_finished_ok |-> end.is_finished_ok,
                                   exit_status |-> end.exit_status, inputs |-> dosmain_inputs,
                                   outputs |-> [has_output |-> end.is_finished_ok]]]
              /\ pc' = "inspect_dosmain"
              /\ UNCHANGED exc
           \/ /\ ~well_typed
              /\ pc' = "excepted"
              /\ exc' = Raise("ValueError", "openmx_orbital_configurations", <<>>, <<>>)
              /\ UNCHANGED ctx
    /\ UNCHANGED <<outputs, exit_code>>
    /\ UNCHANGED workchain_unchanged

\* inspect_dosmain
InspectDosmain ==
    /\ pc = "inspect_dosmain"
    /\ LET code == inspect(ctx.dosmain_calculation, ERROR_SUBPROCESS_FAILED_DOSMAIN)
       IN  IF code # NoExitCode
           THEN pc' = "finished" /\ exit_code' = code
           ELSE pc' = "results" /\ UNCHANGED exit_code
    /\ UNCHANGED <<ctx, outputs, exc>>
    /\ UNCHANGED workchain_unchanged

\* results
Results ==
    /\ pc = "results"
    /\ IF ~ctx.openmx_calculation.outputs.has_output \/ ~ctx.dosmain_calculation.outputs.has_output
       THEN pc' = "excepted" /\ exc' = Raise("NotExistentAttributeError", "outputs", <<>>, <<>>)
                /\ UNCHANGED <<outputs, exit_code>>
       ELSE /\ outputs' = <<[k |-> "openmx_parameters", v |-> "openmx_calculation.outputs.output_parameters"],
                            [k |-> "dosmain_dos", v |-> "dosmain_calculation.outputs.output_dos"]>>
            /\ pc' = "finished"
            /\ exit_code' = ExitCode(0, "none")
            /\ UNCHANGED exc
    /\ UNCHANGED ctx
    /\ UNCHANGED workchain_unchanged

NextDos ==
    \/ ValidateWorkChainInputs
    \/ RunOpenmx
    \/ InspectOpenmx
    \/ RunDosmain
    \/ InspectDosmain
    \/ Results

SpecDos == InitDos /\ [][NextDos]_vars

-----------------------------------------------------------------------------
(* Claims on DosWorkChain *)

\* the steps of the outline and the step each may follow
OutlineOrder ==
    { <<"run_openmx", "inspect_openmx">>, <<"inspect_openmx", "run_dosmain">>,
      <<"run_dosmain", "inspect_dosmain">>, <<"inspect_dosmain", "results">> }

\* C25: the steps run in the order run_openmx, inspect_openmx, run_dosmain,
\* inspect_dosmain, results; DosmainCalculation is submitted only after the
\* OpenmxCalculation finished ok, and a failed one ends the chain with
\* ERROR_SUBPROCESS_FAILED_OPENMX (401); the two outputs are attached only
\* when both calculations finished ok, and a failed DosmainCalculation ends
\* the chain with ERROR_SUBPROCESS_FAILED_DOSMAIN (402).
C25_StepsInOrder ==
    [][ /\ (pc' # pc /\ pc' \in {"inspect_openmx", "run_dosmain", "inspect_dosmain", "results"})
              => <<pc, pc'>> \in OutlineOrder
        /\ ctx'.dosmain_calculation.submitted
              => (ctx'.openmx_calculation.submitted /\ ctx'.openmx_calculation.is_finished_ok)
        /\ (pc = "inspect_openmx" /\ ~ctx.openmx_calculation.is_finished_ok)
              => (pc' = "finished" /\ exit_code' = ExitCode(401, "ERROR_SUBPROCESS_FAILED_OPENMX")
                  /\ ~ctx'.dosmain_calculation.submitted /\ outputs' = <<>>)
        /\ (pc = "inspect_dosmain" /\ ~ctx.dosmain_calculation.is_finished_ok)
              => (pc' = "finished" /\ exit_code' = ExitCode(402, "ERROR_SUBPROCESS_FAILED_DOSMAIN")
                  /\ outputs' = <<>>)
        /\ outputs' # <<>>
              => (/\ pc = "results"
                  /\ ctx'.openmx_calculation.is_finished_ok
                  /\ ctx'.dosmain_calculation.submitted
                  /\ ctx'.dosmain_calculation.is_finished_ok
                  /\ dict_keys(outputs') = <<"openmx_parameters", "dosmain_dos">>) ]_vars

\* C25 witness: the chain ended with 401 after a failed OpenmxCalculation,
\* without submitting the DosmainCalculation
C25_Witness ==
    /\ pc = "finished"
    /\ ctx.openmx_calculation.submitted
    /\ ~ctx.openmx_calculation.is_finished_ok
    /\ ~ctx.dosmain_calculation.submitted
    /\ exit_code.status = 401

\* openmx.parameters sets DOS_FILEOUT to True, under a key OpenmxCalculation
\* reads as DOS_FILEOUT
SetsDosFileout ==
    \E i \in 1..Len(inputs.openmx.parameters) :
        /\ str_upper(inputs.openmx.parameters[i].k) = key_DOS_FILEOUT
        /\ inputs.openmx.parameters[i].v = VBool(TRUE)

\* C26: the work chain's input validation rejects, with
\* ERROR_DOS_FILEOUT_NOT_SPECIFIED, exactly the inputs whose openmx.parameters
\* do not set DOS_FILEOUT to True: a DOS_FILEOUT of False is rejected, a True
\* one is accepted under any letter case of the key.
C26_DosFileoutMustBeTrue ==
    pc # "validate_inputs"
    => ((pc = "rejected" /\ exc.id = "ERROR_DOS_FILEOUT_NOT_SPECIFIED") <=> ~SetsDosFileout)

\* C30: every input run_dosmain hands to DosmainCalculation has the type
\* that calculation declares for it.
C30_DosmainInputsWellTyped ==
    (pc \in {"inspect_dosmain", "results", "finished"} /\ ctx.dosmain_calculation.submitted)
    => \A port \in DOMAIN DosmainDeclaredTypes :
          ctx.dosmain_calculation.inputs[port] = DosmainDeclaredTypes[port]
-----------------------------------------------------------------------------
(* calculations/openmx.py: the retrieve list of prepare_for_submission *)

\* file names a caller asks for in settings['ADDITIONAL_RETRIEVE_LIST']
AdditionalFiles == <<"aiida.tden.cube", "aiida.scfout">>

\* the settings dictionaries given to the calculation; keys in the case the
\* caller used
SettingsDicts ==
    { <<>>,
      << [k |-> key_CMDLINE, v |-> VArr(<<"-nt", "2">>)] >>,
      << [k |-> key_ADDITIONAL_RETRIEVE_LIST, v |-> VArr(AdditionalFiles)] >>,
      << [k |-> key_additional_retrieve_list, v |-> VArr(<<AdditionalFiles[1]>>)] >>,
      << [k |-> key_ADDITIONAL_RETRIEVE_LIST, v |-> VArr(AdditionalFiles)],
         [k |-> key_additional_retrieve_list, v |-> VArr(<<AdditionalFiles[1]>>)] >> }

\* the entries of the parameters dictionary that the retrieve list depends
\* on, each in several letter cases; at most one entry per keyword
BandNkpathItems ==
    { [k |-> KW_BAND_NKPATH, v |-> VInt(0)],
      [k |-> KW_BAND_NKPATH, v |-> VInt(1)],
      [k |-> key_band_nkpath, v |-> VInt(1)] }

EigenvalueSolverItems ==
    { [k |-> KW_SCF_EIGENVALUESOLVER, v |-> VStr(str_band)],
      [k |-> KW_SCF_EIGENVALUESOLVER, v |-> VStr(str_Band)],
      [k |-> KW_SCF_EIGENVALUESOLVER, v |-> VStr(str_Cluster)] }

MdTypeItems ==
    { [k |-> key_MD_TYPE, v |-> VStr(str_nomd)],
      [k |-> key_MD_TYPE, v |-> VStr(str_NOMD)],
      [k |-> key_MD_TYPE, v |-> VStr(str_opt)],
      [k |-> key_MD_TYPE, v |-> VStr(str_Opt)],
      [k |-> key_md_type, v |-> VStr(str_Opt)] }

OneOrNone(items) == {<<>>} \cup {<<i>> : i \in items}

RetrieveDicts ==
    {b \o s \o m : b \in OneOrNone(BandNkpathItems), s \in OneOrNone(EigenvalueSolverItems),
                   m \in OneOrNone(MdTypeItems)}

\* the inputs of a calculation on one kind of atom, with and without settings
RetrieveInputs ==
    LET base(d) == [ structure |-> StructureOf(<<kind_A>>),
                     kpoints |-> [has_mesh |-> TRUE, mesh |-> <<2, 2, 2>>, offset |-> <<0, 0, 0>>],
                     parameters |-> d,
                     pseudos |-> [kind \in {kind_A} |->
                                     [xc_type |-> str_PBE, z_valence |-> 1, filename |-> kind \o ext_vps]],
                     orbitals |-> [kind \in {kind_A} |->
                                     [z_valence |-> 1, filename |-> kind \o <<"7", ".", "0">> \o ext_pao]],
                     orbital_configurations |-> [kind \in {kind_A} |-> <<2, 1, 0, 0>>] ]
        with(d, s) == [ structure |-> base(d).structure, kpoints |-> base(d).kpoints,
                        parameters |-> d, pseudos |-> base(d).pseudos, orbitals |-> base(d).orbitals,
                        orbital_configurations |-> base(d).orbital_configurations, settings |-> s ]
    IN  {base(d) : d \in RetrieveDicts} \cup {with(d, s) : d \in RetrieveDicts, s \in SettingsDicts}

InitRetrieve ==
    /\ inputs \in RetrieveInputs
    /\ pc = "uppercase_dict_keys"
    /\ parameters = <<>>
    /\ exc = NoExc
    /\ input_file_content = <<>>
    /\ folder = <<>>
    /\ calcinfo = NoCalcInfo
    /\ invocation = 1
    /\ previous = <<>>
    /\ dictionary = inputs.parameters
    /\ probe = NoProbe
    /\ ParserIdle

SpecRetrieve == InitRetrieve /\ [][Next]_vars

\* what the caller gave for a keyword, letter case aside, or the default
CallerValue(kw, default) ==
    LET d == inputs.parameters
        hits == {i \in 1..Len(d) : str_upper(d[i].k) = kw}
    IN  IF hits = {} THEN default
        ELSE LET v == d[CHOOSE i \in hits : TRUE].v
             IN  IF v.type = "string" THEN VStr(str_lower(v.val)) ELSE v

\* the entries the caller gave under ADDITIONAL_RETRIEVE_LIST, letter case of
\* the key aside
CallerAdditional ==
    LET s == settings_of(inputs)
        hits == {i \in 1..Len(s) : str_upper(s[i].k) = key_ADDITIONAL_RETRIEVE_LIST}
    IN  IF hits = {} THEN <<>> ELSE s[CHOOSE i \in hits : TRUE].v.val

\* C27: the retrieve list of a returned CalcInfo holds 'aiida.out'; it holds
\* 'aiida.Band' exactly when BAND_NKPATH > 0 and SCF_EIGENVALUESOLVER (default
\* 'band') is 'band', and 'aiida.md' and 'aiida.md2' exactly when MD_TYPE
\* (default 'nomd') is not 'nomd', whatever letter case the caller used; the
\* entries of ADDITIONAL_RETRIEVE_LIST are the tail of the list, after
\* 'aiida.out'.
C27_RetrieveList ==
    pc = "returned" =>
        LET rl == calcinfo.retrieve_list
            add == CallerAdditional
            n == Len(rl) - Len(add)
            head == SubSeq(rl, 1, n)
        IN  /\ n >= 1
            /\ SubSeq(rl, n + 1, Len(rl)) = add
            /\ head[n] = _OUTPUT_FILE
            /\ _DATAFILE_BAND_FILE \in Range(head)
                  <=> (/\ CallerValue(KW_BAND_NKPATH, VInt(0)).val > 0
                       /\ CallerValue(KW_SCF_EIGENVALUESOLVER, VStr(str_band)) = VStr(str_band))
            /\ _DATAFILE_MD_FILE \in Range(head)
                  <=> CallerValue(KW_MD_TYPE, VStr(str_nomd)) # VStr(str_nomd)
            /\ _DATAFILE_MD2_FILE \in Range(head)
                  <=> CallerValue(KW_MD_TYPE, VStr(str_nomd)) # VStr(str_nomd)

\* a calculation with band path, solver 'Band', MD_TYPE 'Opt' and two
\* additional files to retrieve has returned
C27_Witness ==
    /\ pc = "returned"
    /\ \E i \in 1..Len(inputs.parameters) : inputs.parameters[i].v = VStr(str_Band)
    /\ \E i \in 1..Len(inputs.parameters) : inputs.parameters[i].v = VStr(str_Opt)
    /\ calcinfo.retrieve_list =
          <<_DATAFILE_BAND_FILE, _DATAFILE_MD_FILE, _DATAFILE_MD2_FILE, _OUTPUT_FILE>> \o AdditionalFiles
====
